---- MODULE Spec2Model ----
(***************************************************************************)
(* A model of the squashfile image engine (libsquash): the byte layout of  *)
(* an image, the single-pass writer (disk/write.rs), the positioned-read   *)
(* image reader (disk/mod.rs), the ChaCha20 stream layer (disk/crypto.rs)  *)
(* and the filesystem view with its path resolver (fs.rs).                 *)
(*                                                                         *)
(* Bytes are the integers 0..255.  A byte string is a sequence of bytes;   *)
(* absolute offsets count from 0, so offset o is element o+1.              *)
(***************************************************************************)
EXTENDS Integers, Sequences, FiniteSets, TLC

VARIABLES
    tree,       \* the host source directory handed to write_image
    enc,        \* the EncryptionType handed to the last write_image
    store,      \* the bytes of the output of the last write_image
    ref,        \* the bytes of the output of the write_image before it
    pc,         \* where the caller is: "start", "written", "open", "ready", ...
    img,        \* the opened Image (disk::Image), or NoImage
    op,         \* the last call made, with its arguments
    cwd,        \* the Directory handle the caller holds (its Inode), or NoDir
    at,         \* the offset the caller found the inode of cwd at
    res,        \* what that call returned
    cw,         \* cipher scenario: the EncryptChaCha20 writer over its stream
    plain,      \* cipher scenario: offset -> plaintext byte last accepted there
    overflow_checks \* whether the library was built with -C overflow-checks

vars ==
    <<tree, enc, store, ref, pc, img, op, cwd, at, res, cw, plain, overflow_checks>>

----------------------------------------------------------------------------
(* Byte strings *)

Min(a, b) == IF a < b THEN a ELSE b

Max(a, b) == IF a > b THEN a ELSE b

Zeros(n) == [i \in 1..n |-> 0]

\* Rust's Ord for [u8]: lexicographic on the bytes, a strict prefix is smaller.
\* "lt", "eq" or "gt".
RECURSIVE CmpFrom(_, _, _)
CmpFrom(a, b, i) ==
    IF i > Len(a) /\ i > Len(b) THEN "eq"
    ELSE IF i > Len(a) THEN "lt"
    ELSE IF i > Len(b) THEN "gt"
    ELSE IF a[i] < b[i] THEN "lt"
    ELSE IF a[i] > b[i] THEN "gt"
    ELSE CmpFrom(a, b, i + 1)

Cmp(a, b) == CmpFrom(a, b, 1)

\* The bytes of s in [off, off + n), clipped to s.
Slice(s, off, n) == SubSeq(s, off + 1, Min(Len(s), off + n))

\* s with bytes written at absolute offset pos; a gap past the end reads as 0.
Overwrite(s, pos, bytes) ==
    [i \in 1..Max(Len(s), pos + Len(bytes)) |->
        IF i > pos /\ i <= pos + Len(bytes) THEN bytes[i - pos]
        ELSE IF i <= Len(s) THEN s[i]
        ELSE 0]

----------------------------------------------------------------------------
(* Fixed-size little-endian records (disk/mod.rs) *)

HeaderSize == 32
InodeSize == 32
DirentSize == 16

MAGIC == <<83, 81, 85, 65, 83, 72, 70, 76>>    \* "SQUASHFL"
VERSION_MAJOR == 0
VERSION_MINOR == 0

\* The u64 values of the model.  Offsets of written images stay below 2^24
\* and are themselves.  A stored u64 whose five high bytes are all 255 is
\* one of the last 2^24 values before 2^64: it decodes to U64Top plus its
\* three low bytes, and U64Mod stands for 2^64, so that a sum passes U64Mod
\* exactly when the u64 sum passes 2^64.  Any other stored u64 with a high
\* byte set decodes to U64Far, an offset beyond every store of the model.
U64Far == 16777216

U64Top == 3 * U64Far

U64Mod == 4 * U64Far

\* isize::MAX + 1 = 2^63, half of 2^64.
IsizeLimit == 2 * U64Far

U64ToLE(v) ==
    LET low == IF v >= U64Top THEN v - U64Top
               ELSE IF v >= U64Far THEN v - U64Far
               ELSE v
    IN  <<low % 256, (low \div 256) % 256, (low \div 65536) % 256>>
        \o (IF v >= U64Top THEN <<255, 255, 255, 255, 255>>
            ELSE IF v >= U64Far THEN <<1, 0, 0, 0, 0>>
            ELSE <<0, 0, 0, 0, 0>>)

U64FromLE(b) ==
    IF \A i \in 4..8 : b[i] = 255 THEN U64Top + b[1] + 256 * b[2] + 65536 * b[3]
    ELSE IF \E i \in 4..8 : b[i] # 0 THEN U64Far
    ELSE b[1] + 256 * b[2] + 65536 * b[3]

----------------------------------------------------------------------------
(* Results: Ok(v) or Err(kind), kind one of the variants of error::Error    *)
(* ("IO_UnexpectedEof", "IO_WriteZero", "Format", "Bounds", "Crypto",       *)
(* "InvalidOperation"), or a panic of the process ("Panic").                *)

Ok(v) == [ok |-> TRUE, v |-> v]

Err(e) == [ok |-> FALSE, err |-> e]

IsErr(r, e) == ~r.ok /\ r.err = e

\* `let x = v; F(x)`: v is computed first, and once, then F is applied to it.
Let(v, F(_)) == CASE v = v -> F(v)

\* a + b on u64: past 2^64 a build with overflow checks panics and a build
\* without them wraps.
AddU64(a, b) ==
    IF a + b < U64Mod THEN Ok(a + b)
    ELSE IF overflow_checks THEN Err("Panic")
    ELSE Ok((a + b) % U64Mod)

----------------------------------------------------------------------------
(* The ChaCha20 stream layer (disk/crypto.rs) *)

\* The rekey period and the scratch buffer are 2^32 and 4096 bytes in the
\* source (crypto.rs:20-21); the model keeps their roles and their order
\* (buffer < period) at a size whose windows a small store crosses.
CHACHA20_REKEY_PERIOD == 16
CHACHA20_BUFFER_SIZE == 4

KEY_SIZE == 32
IV_SIZE == 12

\* TEST_KEY of crypto.rs: a 32-byte key followed by a 4-byte nonce prefix.
TEST_KEY ==
    <<64, 60, 203, 113, 201, 153, 102, 4, 55, 136, 199, 178, 247, 227, 180,
      200, 127, 74, 31, 45, 33, 211, 31, 37, 95, 239, 116, 26, 100, 38, 110,
      186, 191, 93, 50, 95>>

\* The exclusive or of two bytes, bit by bit.
Bit(x, k) == (x \div k) % 2

Xor(a, b) ==
    ((Bit(a, 1) + Bit(b, 1)) % 2) + 2 * ((Bit(a, 2) + Bit(b, 2)) % 2)
    + 4 * ((Bit(a, 4) + Bit(b, 4)) % 2) + 8 * ((Bit(a, 8) + Bit(b, 8)) % 2)
    + 16 * ((Bit(a, 16) + Bit(b, 16)) % 2) + 32 * ((Bit(a, 32) + Bit(b, 32)) % 2)
    + 64 * ((Bit(a, 64) + Bit(b, 64)) % 2) + 128 * ((Bit(a, 128) + Bit(b, 128)) % 2)

\* The sum of i * s[i] over lo..hi, modulo 256.
RECURSIVE SumBytes(_, _, _)
SumBytes(s, lo, hi) ==
    IF lo > hi THEN 0
    ELSE IF lo = hi THEN (lo * s[lo]) % 256
    ELSE (SumBytes(s, lo, (lo + hi) \div 2)
          + SumBytes(s, ((lo + hi) \div 2) + 1, hi)) % 256

\* u64::to_be_bytes, for the window numbers of the model (< 2^16).
U64ToBE(v) == <<0, 0, 0, 0, 0, 0, (v \div 256) % 256, v % 256>>

\* block_nonce that left the window number out of the nonce.
BlockNonceFirstWindow(nonce_prefix, pos) == nonce_prefix \o U64ToBE(0)

\* EncryptChaCha20::block_nonce: nonce_prefix || big-endian(pos / REKEY_PERIOD).
BlockNonce(nonce_prefix, pos) ==
    nonce_prefix \o U64ToBE(pos \div CHACHA20_REKEY_PERIOD)

\* ChaCha20::new(key, nonce): the keystream is a fixed function of the key,
\* the nonce and the position in the stream, which is all the layer relies
\* on.  KeystreamSeed is what key and nonce contribute, KeystreamByte the
\* byte at stream position p.
KeystreamSeed(key, nonce) ==
    (SumBytes(key, 1, Len(key)) + 29 * SumBytes(nonce, 1, Len(nonce))) % 256

KeystreamByte(seed, p) == (seed + 13 * p + 7 * (p \div 5) + 1) % 256

\* ChaCha20::new(key, nonce); try_seek(p); apply the keystream to bytes.  The
\* keystream of one nonce has 2^32 blocks of 64 bytes, 64 rekey periods; the
\* cipher refuses to run past its end.
ApplyKeystream(key, nonce, p, bytes) ==
    IF p + Len(bytes) > 64 * CHACHA20_REKEY_PERIOD THEN Err("Crypto")
    ELSE LET seed == KeystreamSeed(key, nonce)
         IN  Ok([i \in 1..Len(bytes) |-> Xor(bytes[i], KeystreamByte(seed, p + i - 1))])

\* EncryptChaCha20::new that took a key of any length.
EncryptChaCha20NewAnyLength(f, k) ==
    IF k = <<>> THEN Err("Crypto")
    ELSE Ok([f |-> f,
             nonce_prefix |-> SubSeq(k[1], KEY_SIZE + 1, Len(k[1])),
             key |-> SubSeq(k[1], 1, Min(KEY_SIZE, Len(k[1]))),
             pos |-> 0])

\* EncryptChaCha20::new: the 36-byte key is split in key and nonce prefix; the
\* logical position starts at 0 whatever the position of the inner stream.
EncryptChaCha20New(f, k) ==
    IF k = <<>> THEN Err("Crypto")
    ELSE IF Len(k[1]) # KEY_SIZE + IV_SIZE - 8 THEN Err("Crypto")
    ELSE Ok([f |-> f,
             nonce_prefix |-> SubSeq(k[1], KEY_SIZE + 1, Len(k[1])),
             key |-> SubSeq(k[1], 1, KEY_SIZE),
             pos |-> 0])

\* Vec<u8> / std::fs::File as ReadAt: the bytes of [offset, offset + len) that
\* the store holds (none past its end).
StoreReadAt(data, len, offset) ==
    IF offset > Len(data) THEN <<>>
    ELSE Slice(data, offset, Min(len, Len(data) - offset))

\* The loop of EncryptChaCha20::read_at over the sz bytes the inner read
\* returned: buf[pos..] still to decrypt, off its absolute offset.
RECURSIVE CryptReadLoop(_, _, _, _)
CryptReadLoop(c, buf, pos, off) ==
    IF pos >= Len(buf) THEN Ok(buf)
    ELSE LET p == off % CHACHA20_REKEY_PERIOD
             l == Min(Len(buf) - pos, CHACHA20_REKEY_PERIOD - p)
             nonce == BlockNonce(c.nonce_prefix, off)
         IN  Let(ApplyKeystream(c.key, nonce, p, SubSeq(buf, pos + 1, pos + l)),
                 LAMBDA b :
                     IF ~b.ok THEN b
                     ELSE CryptReadLoop(c, Overwrite(buf, pos, b.v), pos + l, off + l))

\* EncryptChaCha20::read_at built on a seek: the read leaves the logical
\* position behind the bytes it returned.
CryptAfterReadAtSeeking(c, len, offset) == [c EXCEPT !.pos = offset + len]

\* What EncryptChaCha20::read_at leaves of the wrapper: it takes &self, its
\* pos, nonce, len and off are locals and the cipher is built anew per
\* block, so that no field is assigned.
CryptAfterReadAt(c, len, offset) == c

\* EncryptChaCha20::read_at over an inner store holding data.
CryptReadAt(c, data, len, offset) ==
    CryptReadLoop(c, StoreReadAt(data, len, offset), 0, offset)

\* A traced stream also carries the bytes its coming write calls accept
\* (script, one number per call; cap once the script is used up) and what
\* the writer did on it: log, one record per write call; names, one record
\* per directory entry written; dirs, one record per write_directory that
\* returned.
Traced(f) == "log" \in DOMAIN f

TracedStream(data, script) ==
    [data |-> data, pos |-> 0, cap |-> U64Far, script |-> script,
     log |-> <<>>, names |-> <<>>, dirs |-> <<>>]

\* The inner Seek + Write stream (a Cursor or a file): its bytes, its position
\* and the most bytes one write call accepts.  logical is the position the
\* caller takes the bytes to land at: the cipher's pos, or the stream's own.
FWriteAt(f, bytes, logical) ==
    LET scripted == Traced(f) /\ f.script # <<>>
        n == Min(Len(bytes), IF scripted THEN Head(f.script) ELSE f.cap)
        g == IF Traced(f)
             THEN [f EXCEPT !.script = IF scripted THEN Tail(@) ELSE @,
                            !.log = Append(@, [at |-> f.pos, n |-> n,
                                               logical |-> logical])]
             ELSE f
    IN  [f |-> IF n = 0 THEN g
               ELSE [g EXCEPT !.data = Overwrite(f.data, f.pos, SubSeq(bytes, 1, n)),
                              !.pos = f.pos + n],
         n |-> n]

FWrite(f, bytes) == FWriteAt(f, bytes, f.pos)

\* EncryptChaCha20::write that moves its position by the l bytes it offered
\* to the inner stream, not by the sz bytes the stream took.
RECURSIVE CryptWriteLoopOffered(_, _, _, _)
CryptWriteLoopOffered(c, buf, pos, off) ==
    IF pos >= Len(buf) THEN [c |-> c, r |-> Ok(pos)]
    ELSE LET p == off % CHACHA20_REKEY_PERIOD
             l == Min(Len(buf) - pos,
                      Min(CHACHA20_BUFFER_SIZE, CHACHA20_REKEY_PERIOD - p))
             nonce == BlockNonce(c.nonce_prefix, off)
         IN  Let(ApplyKeystream(c.key, nonce, p, SubSeq(buf, pos + 1, pos + l)),
                 LAMBDA b :
                     IF ~b.ok THEN [c |-> c, r |-> Err("IO_Other")]
                     ELSE Let(FWriteAt(c.f, b.v, off), LAMBDA w :
                          LET c2 == [c EXCEPT !.f = w.f, !.pos = c.pos + l]
                          IN  IF w.n = 0 THEN [c |-> c2, r |-> Ok(pos)]
                              ELSE CryptWriteLoopOffered(c2, buf, pos + w.n, off + w.n)))

\* The loop of EncryptChaCha20::write: buf[pos..] still to write, off the
\* offset the keystream is taken at.  Returns the wrapper and Ok(count).
RECURSIVE CryptWriteLoop(_, _, _, _)
CryptWriteLoop(c, buf, pos, off) ==
    IF pos >= Len(buf) THEN [c |-> c, r |-> Ok(pos)]
    ELSE LET p == off % CHACHA20_REKEY_PERIOD
             l == Min(Len(buf) - pos,
                      Min(CHACHA20_BUFFER_SIZE, CHACHA20_REKEY_PERIOD - p))
             nonce == BlockNonce(c.nonce_prefix, off)
         IN  Let(ApplyKeystream(c.key, nonce, p, SubSeq(buf, pos + 1, pos + l)),
                 LAMBDA b :
                     IF ~b.ok THEN [c |-> c, r |-> Err("IO_Other")]
                     ELSE Let(FWriteAt(c.f, b.v, off), LAMBDA w :
                          LET c2 == [c EXCEPT !.f = w.f, !.pos = c.pos + w.n]
                          IN  IF w.n = 0 THEN [c |-> c2, r |-> Ok(pos)]
                              ELSE CryptWriteLoop(c2, buf, pos + w.n, off + w.n)))

CryptWrite(c, buf) == CryptWriteLoop(c, buf, 0, c.pos)

\* seek that moved the inner stream and left the logical position behind.
CryptSeekInnerOnly(c, p) == [c EXCEPT !.f.pos = p]

\* EncryptChaCha20::seek: the logical position follows the inner stream.
CryptSeek(c, p) == [c EXCEPT !.f.pos = p, !.pos = p]

----------------------------------------------------------------------------
(* The output of the writer: Box<dyn SeekWrite> of write_image, the raw    *)
(* stream or the stream wrapped in EncryptChaCha20.  err is "ok" until a   *)
(* call fails; the `?` of the source then returns early, so every later    *)
(* call on a failed output leaves it as it is.                             *)

Unlimited == U64Far

NewStream(data) == [data |-> data, pos |-> 0, cap |-> Unlimited]

RawOut(f) ==
    [kind |-> "raw", err |-> "ok",
     c |-> [f |-> f, nonce_prefix |-> <<>>, key |-> <<>>, pos |-> 0]]

CryptOut(c) == [kind |-> "chacha", err |-> "ok", c |-> c]

\* Write::write on the output: one call, which may accept fewer bytes.
OutWrite(w, buf) ==
    IF w.kind = "raw"
    THEN Let(FWrite(w.c.f, buf),
             LAMBDA x : [w |-> [w EXCEPT !.c.f = x.f], r |-> Ok(x.n)])
    ELSE Let(CryptWrite(w.c, buf),
             LAMBDA x : [w |-> [w EXCEPT !.c = x.c], r |-> x.r])

\* Write::write_all: write until the buffer is empty; a call that accepts
\* nothing is the error WriteZero.
RECURSIVE OutWriteAll(_, _)
OutWriteAll(w, buf) ==
    IF w.err # "ok" \/ Len(buf) = 0 THEN w
    ELSE Let(OutWrite(w, buf), LAMBDA x :
             IF ~x.r.ok THEN [x.w EXCEPT !.err = x.r.err]
             ELSE IF x.r.v = 0 THEN [x.w EXCEPT !.err = "IO_WriteZero"]
             ELSE OutWriteAll(x.w, SubSeq(buf, x.r.v + 1, Len(buf))))

\* Seek::seek(SeekFrom::Start(p)).
OutSeek(w, p) ==
    IF w.err # "ok" THEN w
    ELSE IF w.kind = "raw" THEN [w EXCEPT !.c.f.pos = p]
    ELSE [w EXCEPT !.c = CryptSeek(w.c, p)]

\* stream_position that asked the inner stream and did not pass through
\* EncryptChaCha20::seek.
OutStreamPositionUnsynced(w) == w

\* Seek::stream_position is seek(SeekFrom::Current(0)): it returns the inner
\* position and, through EncryptChaCha20::seek, sets the logical one to it.
OutStreamPosition(w) == OutSeek(w, w.c.f.pos)

PosOf(w) == w.c.f.pos

\* What a traced output keeps of an entry and of a directory written.
NoteName(w, rec) ==
    IF Traced(w.c.f) /\ w.err = "ok" THEN [w EXCEPT !.c.f.names = Append(@, rec)]
    ELSE w

NoteDirectory(w, rec) ==
    IF Traced(w.c.f) /\ w.err = "ok" THEN [w EXCEPT !.c.f.dirs = Append(@, rec)]
    ELSE w

----------------------------------------------------------------------------
(* The host source tree.  A node is                                         *)
(*   [ty |-> "file", data |-> bytes], [ty |-> "symlink", target |-> bytes]  *)
(*   or [ty |-> "dir", entries |-> <<[name |-> bytes, node |-> node]>>],    *)
(* the entries in the order fs::read_dir happens to yield them.             *)

FileNode(d) == [ty |-> "file", data |-> d]

LinkNode(t) == [ty |-> "symlink", target |-> t]

DirNode(es) == [ty |-> "dir", entries |-> es]

Entry(n, x) == [name |-> n, node |-> x]

----------------------------------------------------------------------------
(* The writer (disk/write.rs) *)

TypeDirectory == 0
TypeFile == 1
TypeSymlink == 2

EncNone == 0
EncChaCha20 == 1

\* struct_to_slice of an Inode: parent_inode, offset, size, inode_type, pad.
InodeBytes(parent, offset, size, type) ==
    U64ToLE(parent) \o U64ToLE(offset) \o U64ToLE(size) \o <<type>> \o Zeros(7)

\* struct_to_slice of a Dirent: name, inode.
DirentBytes(d) == U64ToLE(d.name) \o U64ToLE(d.inode)

RECURSIVE DirentTable(_, _)
DirentTable(entries, i) ==
    IF i > Len(entries) THEN <<>>
    ELSE DirentBytes(entries[i]) \o DirentTable(entries, i + 1)

\* struct_to_slice of the Header that write_header fills.
HeaderBytes(root_inode, enc_type) ==
    MAGIC \o U64ToLE(root_inode)
          \o <<VERSION_MAJOR, VERSION_MINOR, 0, enc_type>> \o Zeros(12)

\* write_file: the payload, then the inode record.  Returns the output and
\* the position of the inode.
WriteFile(node, w0) ==
    Let(OutStreamPosition(w0), LAMBDA w1 :
    Let(OutWriteAll(w1, node.data), LAMBDA w2 :           \* io::copy
    Let(OutStreamPosition(w2), LAMBDA w3 :
        [w |-> OutWriteAll(w3, InodeBytes(0, PosOf(w1), Len(node.data), TypeFile)),
         pos |-> PosOf(w3)])))

\* write_symlink: the target bytes, then the inode record.
WriteSymlink(node, w0) ==
    Let(OutStreamPosition(w0), LAMBDA w1 :
    Let(OutWriteAll(w1, node.target), LAMBDA w2 :
    Let(OutStreamPosition(w2), LAMBDA w3 :
        [w |-> OutWriteAll(w3, InodeBytes(0, PosOf(w1), Len(node.target), TypeSymlink)),
         pos |-> PosOf(w3)])))

\* paths.sort_by_key(|e| e.path()): the entries of one directory share the
\* parent's components, so Path's component-wise order is the byte order of
\* the file names.  Insertion of e in a sorted sequence, then the sort.
RECURSIVE InsertByPath(_, _)
InsertByPath(e, sorted) ==
    IF sorted = <<>> THEN <<e>>
    ELSE IF Cmp(e.name, Head(sorted).name) = "lt" THEN <<e>> \o sorted
    ELSE <<Head(sorted)>> \o InsertByPath(e, Tail(sorted))

\* write_directory without its sort: the entries as read_dir yielded them.
SortByPathAsRead(paths) == paths

RECURSIVE SortByPath(_)
SortByPath(paths) ==
    IF paths = <<>> THEN <<>>
    ELSE InsertByPath(paths[Len(paths)], SortByPath(SubSeq(paths, 1, Len(paths) - 1)))

\* write_directory without its fix-up loop.
PatchParentsSkipped(entries, i, inode_ref, w) == w

\* The fix-up loop of write_directory: the first 8 bytes of every child's
\* inode record are overwritten with the directory's inode position.
RECURSIVE PatchParents(_, _, _, _)
PatchParents(entries, i, inode_ref, w) ==
    IF i > Len(entries) THEN w
    ELSE PatchParents(entries, i + 1, inode_ref,
                      OutWriteAll(OutSeek(w, entries[i].inode), U64ToLE(inode_ref)))

RECURSIVE WriteDirectory(_, _)
RECURSIVE WriteEntries(_, _, _, _)

\* The loop of write_directory over the sorted children: name, NUL, the
\* child itself, and a Dirent pushed for it.
WriteEntries(paths, i, w0, entries) ==
    IF i > Len(paths) \/ w0.err # "ok" THEN [w |-> w0, entries |-> entries]
    ELSE
    Let(OutStreamPosition(w0), LAMBDA w1 :                \* name_pos is PosOf(w1)
    Let(OutWriteAll(w1, paths[i].name), LAMBDA w2 :
    \* out.write(b"\0")?: one write call, its count is dropped
    Let(IF w2.err # "ok" THEN [w |-> w2, r |-> Ok(0)] ELSE OutWrite(w2, <<0>>), LAMBDA x :
    Let(IF x.r.ok THEN x.w ELSE [x.w EXCEPT !.err = x.r.err], LAMBDA w3 :
    Let(IF paths[i].node.ty = "file" THEN WriteFile(paths[i].node, w3)
        ELSE IF paths[i].node.ty = "symlink" THEN WriteSymlink(paths[i].node, w3)
        ELSE IF paths[i].node.ty = "dir" THEN WriteDirectory(paths[i].node, w3)
        ELSE [w |-> [w3 EXCEPT !.err = "InvalidOperation"], pos |-> 0], LAMBDA child :
        WriteEntries(paths, i + 1,
                     NoteName(child.w, [name_pos |-> PosOf(w1),
                                        name |-> paths[i].name,
                                        start |-> PosOf(w3),
                                        inode |-> child.pos]),
                     Append(entries, [name |-> PosOf(w1), inode |-> child.pos])))))))

\* write_directory that returns where the fix-up loop left the stream.
RestorePositionSkipped(w, cur_pos) == w

\* out.seek(SeekFrom::Start(cur_pos)) behind the fix-up loop.
RestorePosition(w, cur_pos) == OutSeek(w, cur_pos)

\* write_directory: children, dirent table, inode record, parent fix-up.
\* Returns the output and the position of the directory's inode.
WriteDirectory(dir, w0) ==
    Let(WriteEntries(SortByPath(dir.entries), 1, w0, <<>>), LAMBDA e :
    Let(DirentTable(e.entries, 1), LAMBDA buf :
    Let(OutStreamPosition(e.w), LAMBDA w1 :               \* offset is PosOf(w1)
    Let(OutWriteAll(w1, buf), LAMBDA w2 :
    Let(OutStreamPosition(w2), LAMBDA w3 :                \* dir_inode_pos is PosOf(w3)
    Let(OutWriteAll(w3, InodeBytes(0, PosOf(w1), Len(buf), TypeDirectory)), LAMBDA w4 :
    Let(OutStreamPosition(w4), LAMBDA w5 :                \* cur_pos is PosOf(w5)
    Let(PatchParents(e.entries, 1, PosOf(w3), w5), LAMBDA w6 :
    Let(RestorePosition(w6, PosOf(w5)), LAMBDA w7 :
        [w |-> NoteDirectory(w7, [pos |-> PosOf(w3),
                                  entries |-> e.entries,
                                  before |-> w5.c.f.data,
                                  after |-> w6.c.f.data,
                                  end |-> PosOf(w7)]),
         pos |-> PosOf(w3)])))))))))

\* write_header on the raw stream.
WriteHeader(f, root_inode, enc_type) ==
    OutWriteAll(RawOut(f), HeaderBytes(root_inode, enc_type))

\* write_image that puts a header with root_inode 0 in place before it
\* writes the tree and writes the final one over it.
WriteImageHeaderFirst(source, out, key, enc_type) ==
    IF source.ty # "dir" THEN [f |-> out, r |-> Err("InvalidOperation")]
    ELSE
    LET f0 == [WriteHeader([out EXCEPT !.pos = 0], 0, enc_type).c.f
                   EXCEPT !.pos = HeaderSize]
    IN
    Let(IF enc_type = EncNone THEN Ok(RawOut(f0))
        ELSE Let(EncryptChaCha20New(f0, key),
                 LAMBDA c : IF c.ok THEN Ok(CryptOut(c.v)) ELSE c), LAMBDA wrap :
    IF ~wrap.ok THEN [f |-> f0, r |-> wrap]
    ELSE
    Let(WriteDirectory(source, wrap.v), LAMBDA d :
    Let(OutWriteAll(OutSeek(d.w, d.pos), U64ToLE(d.pos)), LAMBDA w1 :
    IF w1.err # "ok" THEN [f |-> w1.c.f, r |-> Err(w1.err)]
    ELSE
    Let(WriteHeader([w1.c.f EXCEPT !.pos = 0], d.pos, enc_type), LAMBDA h :
        [f |-> h.c.f, r |-> IF h.err = "ok" THEN Ok(<<>>) ELSE Err(h.err),
         root_inode |-> d.pos, dropped |-> w1.c]))))

\* write_image(source, out, key, enc_type) on the stream out.  Returns the
\* stream as the call leaves it and the call's result.
WriteImage(source, out, key, enc_type) ==
    IF source.ty # "dir" THEN [f |-> out, r |-> Err("InvalidOperation")]
    ELSE
    LET f0 == [out EXCEPT !.pos = HeaderSize]
    IN
    Let(IF enc_type = EncNone THEN Ok(RawOut(f0))
        ELSE Let(EncryptChaCha20New(f0, key),
                 LAMBDA c : IF c.ok THEN Ok(CryptOut(c.v)) ELSE c), LAMBDA wrap :
    IF ~wrap.ok THEN [f |-> f0, r |-> wrap]
    ELSE
    Let(WriteDirectory(source, wrap.v), LAMBDA d :        \* root_inode is d.pos
    Let(OutWriteAll(OutSeek(d.w, d.pos), U64ToLE(d.pos)), LAMBDA w1 :
    IF w1.err # "ok" THEN [f |-> w1.c.f, r |-> Err(w1.err)]
    ELSE
    Let(WriteHeader([w1.c.f EXCEPT !.pos = 0], d.pos, enc_type), LAMBDA h :
        [f |-> h.c.f, r |-> IF h.err = "ok" THEN Ok(<<>>) ELSE Err(h.err),
         root_inode |-> d.pos, dropped |-> w1.c]))))

----------------------------------------------------------------------------
(* The image reader (disk/mod.rs).  Option<T> is <<>> (None) or <<x>>.      *)

None == <<>>

Some(x) == <<x>>

\* A byte store behind ReadAt: the raw bytes, or the bytes behind the cipher.
RawFile(data) == [kind |-> "raw", data |-> data, c |-> <<>>]

CryptFile(c) == [kind |-> "chacha", data |-> c.f, c |-> c]

\* A store whose read_at calls behave as scripted, one step per call: a
\* step returns an error, or at most n bytes; behind the script the store
\* reads like a Vec<u8>.
Step(n, err) == [n |-> n, err |-> err]

ScriptFile(data, script) ==
    [kind |-> "script", data |-> data, c |-> <<>>, script |-> script]

ScriptReadAt(file, len, offset) ==
    IF file.script = <<>> THEN Ok(StoreReadAt(file.data, len, offset))
    ELSE LET step == Head(file.script)
         IN  IF step.err # "none" THEN Err(step.err)
             ELSE Ok(StoreReadAt(file.data, Min(len, step.n), offset))

\* The store as the next call of read_at finds it.
AfterCall(file) ==
    IF file.kind = "script" /\ file.script # <<>>
    THEN [file EXCEPT !.script = Tail(@)]
    ELSE file

\* ReadAt::read_at of the store: Ok(the bytes read), fewer than len at the end.
ReadAt(file, len, offset) ==
    IF file.kind = "raw" THEN Ok(StoreReadAt(file.data, len, offset))
    ELSE IF file.kind = "script" THEN ScriptReadAt(file, len, offset)
    ELSE CryptReadAt(file.c, file.data, len, offset)

\* read_exact_at that asks again at the same offset after a short read.
RECURSIVE ReadExactAtNoAdvance(_, _, _)
ReadExactAtNoAdvance(file, len, offset) ==
    IF len = 0 THEN Ok(<<>>)
    ELSE Let(ReadAt(file, len, offset), LAMBDA r :
             IF IsErr(r, "IO_Interrupted")
             THEN ReadExactAtNoAdvance(AfterCall(file), len, offset)
             ELSE IF ~r.ok THEN r
             ELSE IF Len(r.v) = 0 THEN Err("IO_UnexpectedEof")
             ELSE Let(ReadExactAtNoAdvance(AfterCall(file), len - Len(r.v), offset),
                      LAMBDA rest : IF rest.ok THEN Ok(r.v \o rest.v) ELSE rest))

\* ReadAt::read_exact_at: read until len bytes are in; a read of 0 bytes
\* before that is UnexpectedEof, an Interrupted error is asked again, any
\* other error is returned.
RECURSIVE ReadExactAt(_, _, _)
ReadExactAt(file, len, offset) ==
    IF len = 0 THEN Ok(<<>>)
    ELSE Let(ReadAt(file, len, offset), LAMBDA r :
             IF IsErr(r, "IO_Interrupted")
             THEN ReadExactAt(AfterCall(file), len, offset)
             ELSE IF ~r.ok THEN r
             ELSE IF Len(r.v) = 0 THEN Err("IO_UnexpectedEof")
             ELSE Let(ReadExactAt(AfterCall(file), len - Len(r.v), offset + Len(r.v)),
                      LAMBDA rest : IF rest.ok THEN Ok(r.v \o rest.v) ELSE rest))

\* The Header struct over its 32 bytes.
HeaderOf(b) ==
    [magic |-> SubSeq(b, 1, 8),
     root_inode |-> U64FromLE(SubSeq(b, 9, 16)),
     version_major |-> b[17],
     version_minor |-> b[18],
     compression_type |-> b[19],
     encryption_type |-> b[20]]

\* read_header
ReadHeader(file) ==
    Let(ReadExactAt(file, HeaderSize, 0),
        LAMBDA r : IF r.ok THEN Ok(HeaderOf(r.v)) ELSE r)

\* TryFrom<u8> for EncryptionType that took every nonzero byte for ChaCha20.
EncryptionTypeTryFromLax(val) == IF val = 0 THEN Ok("None") ELSE Ok("ChaCha20")

\* TryFrom<u8> for EncryptionType, CompressionType and InodeType.
EncryptionTypeTryFrom(val) ==
    IF val = 0 THEN Ok("None") ELSE IF val = 1 THEN Ok("ChaCha20") ELSE Err("Format")

CompressionTypeTryFrom(val) == IF val = 0 THEN Ok("None") ELSE Err("Format")

\* TryFrom<u8> for InodeType with the codes of File and Symlink exchanged.
InodeTypeTryFromSwapped(val) ==
    IF val = 0 THEN Ok("Directory")
    ELSE IF val = 1 THEN Ok("Symlink")
    ELSE IF val = 2 THEN Ok("File")
    ELSE Err("Format")

InodeTypeTryFrom(val) ==
    IF val = 0 THEN Ok("Directory")
    ELSE IF val = 1 THEN Ok("File")
    ELSE IF val = 2 THEN Ok("Symlink")
    ELSE Err("Format")

\* From<EncryptionType>, From<CompressionType> and From<InodeType> for u8.
EncryptionTypeInto(val) == CASE val = "None" -> 0 [] val = "ChaCha20" -> 1

CompressionTypeInto(val) == CASE val = "None" -> 0

InodeTypeInto(val) ==
    CASE val = "Directory" -> 0 [] val = "File" -> 1 [] val = "Symlink" -> 2

\* open_file(file, key, nonce): the header is checked field by field, then
\* the store is wrapped according to encryption_type.  The only constructor
\* of the cipher in the source takes the store and the 36-byte key, whose
\* last 4 bytes are the nonce prefix.
OpenFile(data, key, nonce) ==
    Let(ReadHeader(RawFile(data)), LAMBDA h :
    IF ~h.ok THEN h
    ELSE IF h.v.magic # MAGIC THEN Err("Format")
    ELSE IF h.v.version_major # VERSION_MAJOR THEN Err("Format")
    ELSE IF h.v.version_minor # VERSION_MINOR THEN Err("Format")
    ELSE
    LET e == EncryptionTypeTryFrom(h.v.encryption_type)
        comp == CompressionTypeTryFrom(h.v.compression_type)
    IN
    Let(IF ~e.ok THEN e
        ELSE IF e.v = "None" THEN Ok(RawFile(data))
        ELSE IF key = None THEN Err("Crypto")
        ELSE IF nonce = None THEN Err("Crypto")
        ELSE Let(EncryptChaCha20New(data, key),
                 LAMBDA c : IF c.ok THEN Ok(CryptFile(c.v)) ELSE c), LAMBDA stream :
    IF ~stream.ok THEN stream
    ELSE IF ~comp.ok THEN comp
    ELSE Ok([file |-> stream.v, header |-> h.v])))

\* The Inode struct over its 32 bytes.
InodeOf(b) ==
    [parent_inode |-> U64FromLE(SubSeq(b, 1, 8)),
     offset |-> U64FromLE(SubSeq(b, 9, 16)),
     size |-> U64FromLE(SubSeq(b, 17, 24)),
     inode_type |-> b[25]]

\* The Dirent struct over its 16 bytes.
DirentOf(b) ==
    [name |-> U64FromLE(SubSeq(b, 1, 8)), inode |-> U64FromLE(SubSeq(b, 9, 16))]

\* Image::read_inode
ReadInode(image, off) ==
    Let(ReadExactAt(image.file, InodeSize, off),
        LAMBDA r : IF r.ok THEN Ok(InodeOf(r.v)) ELSE r)

\* Image::read_dirent
ImageReadDirent(image, off) ==
    Let(ReadExactAt(image.file, DirentSize, off),
        LAMBDA r : IF r.ok THEN Ok(DirentOf(r.v)) ELSE r)

StrChunk == 32

\* memchr(0, s): the index (from 0) of the first 0 byte of s, or -1.
Memchr(s) ==
    LET hits == {i \in 1..Len(s) : s[i] = 0}
    IN  IF hits = {} THEN -1
        ELSE (CHOOSE i \in hits : \A j \in hits : i <= j) - 1

\* read_str that keeps the whole chunk in which it found the NUL.
RECURSIVE ReadStrLoopWholeChunk(_, _, _)
ReadStrLoopWholeChunk(image, off, buf) ==
    Let(ReadAt(image.file, StrChunk, off), LAMBDA r :
    IF ~r.ok THEN r
    ELSE IF Len(r.v) = 0 THEN Err("IO_UnexpectedEof")
    ELSE Let(Memchr(r.v), LAMBDA i :
             IF i >= 0 THEN Ok(buf \o r.v)
             ELSE ReadStrLoopWholeChunk([image EXCEPT !.file = AfterCall(@)],
                                        off + Len(r.v), buf \o r.v)))

\* Image::read_str: 32-byte reads until one holds a NUL; the string keeps it.
RECURSIVE ReadStrLoop(_, _, _)
ReadStrLoop(image, off, buf) ==
    Let(ReadAt(image.file, StrChunk, off), LAMBDA r :
    IF ~r.ok THEN r
    ELSE IF Len(r.v) = 0 THEN Err("IO_UnexpectedEof")
    ELSE Let(Memchr(r.v), LAMBDA i :
             IF i >= 0 THEN Ok(buf \o SubSeq(r.v, 1, i + 1))
             ELSE ReadStrLoop([image EXCEPT !.file = AfterCall(@)],
                              off + Len(r.v), buf \o r.v)))

ReadStr(image, off) == ReadStrLoop(image, off, <<>>)

\* CString::into_bytes / as_bytes: the string without its NUL.
IntoBytes(cstr) == SubSeq(cstr, 1, Len(cstr) - 1)

\* Image::read_file
ReadFile(image, len, off) == ReadExactAt(image.file, len, off)

\* Image::root_inode
RootInode(image) == ReadInode(image, image.header.root_inode)

\* Inode::parent_inode
ParentInode(inode, image) == ReadInode(image, inode.parent_inode)

\* Inode::read_dirent
InodeReadDirent(inode, pos, image) ==
    LET t == InodeTypeTryFrom(inode.inode_type)
        offset == pos * DirentSize
    IN  IF ~t.ok THEN t
        ELSE IF t.v # "Directory" THEN Err("InvalidOperation")
        ELSE IF offset > inode.size THEN Err("Bounds")
        ELSE LET o == AddU64(offset, inode.offset)
             IN  IF o.ok THEN ImageReadDirent(image, o.v) ELSE o

\* Inode::read_at without the clamp of the length to the payload.
InodeReadAtUnclamped(inode, len, off, image) ==
    IF off > inode.size THEN Ok(<<>>)
    ELSE LET o == AddU64(inode.offset, off)
         IN  IF o.ok THEN ReadFile(image, len, o.v) ELSE o

\* Inode::read_at with a buffer of len bytes: Ok(the sz bytes read).
InodeReadAt(inode, len, off, image) ==
    IF off > inode.size THEN Ok(<<>>)
    ELSE LET o == AddU64(inode.offset, off)
         IN  IF o.ok THEN ReadFile(image, Min(len, inode.size - off), o.v) ELSE o

\* Inode::read_exact_at with a buffer of len bytes: Ok(the len bytes read).
InodeReadExactAt(inode, len, off, image) ==
    LET end == AddU64(off, len)
    IN  IF ~end.ok THEN end
        ELSE IF end.v > inode.size THEN Err("IO_UnexpectedEof")
        ELSE LET o == AddU64(inode.offset, off)
             IN  IF o.ok THEN ReadFile(image, len, o.v) ELSE o

\* Dirent::inode and Dirent::name
DirentInode(d, image) == ReadInode(image, d.inode)

DirentName(d, image) == ReadStr(image, d.name)

----------------------------------------------------------------------------
(* The filesystem view and the path resolver (fs.rs) *)

\* The two limits are 100 and 1024 in the source (fs.rs:16-18); the model
\* keeps the comparisons and runs them at a depth and a length it can explore.
LINK_LOOP_MAX == 3
LINK_TARGET_MAX == 4

\* get_link without the bound on the recorded size.
GetLinkUnbounded(inode, image) ==
    [r |-> InodeReadAt(inode, inode.size, 0, image), reads |-> 1]

\* get_link: Ok(the target bytes), after the bound on the recorded size.
\* reads counts the calls of inode.read_at the function has made.
GetLinkTraced(inode, image) ==
    LET sz == inode.size
    IN  IF sz > LINK_TARGET_MAX THEN [r |-> Err("Bounds"), reads |-> 0]
        ELSE [r |-> InodeReadAt(inode, sz, 0, image), reads |-> 1]

GetLink(inode, image) == GetLinkTraced(inode, image).r

\* Directory::len
DirLen(inode) == inode.size \div DirentSize

\* Directory::get: Ok(None) past the end, else Ok(Some(the Dirent at pos)).
DirGet(inode, pos, image) ==
    IF pos >= DirLen(inode) THEN Ok(None)
    ELSE Let(InodeReadDirent(inode, pos, image),
             LAMBDA d : IF d.ok THEN Ok(Some(d.v)) ELSE d)

\* Directory::get(pos) followed by the inode read of DirEntry::item:
\* Ok(the Inode the pos-th entry refers to).
EntryInode(inode, pos, image) ==
    Let(DirGet(inode, pos, image), LAMBDA d :
        IF ~d.ok THEN d
        ELSE IF d.v = None THEN Err("none")
        ELSE DirentInode(d.v[1], image))

\* dir.iter() collected: for every entry in table order its file_name(), the
\* offset its dirent records for the inode, and the Inode read there.
RECURSIVE ReadDirFrom(_, _, _, _)
ReadDirFrom(inode, pos, image, done) ==
    Let(DirGet(inode, pos, image), LAMBDA e :
    IF ~e.ok THEN e
    ELSE IF e.v = None THEN Ok(done)
    ELSE
    Let(DirentName(e.v[1], image), LAMBDA name :
    Let(IF name.ok THEN DirentInode(e.v[1], image) ELSE name, LAMBDA item :
    IF ~item.ok THEN item
    ELSE ReadDirFrom(inode, pos + 1, image,
                     Append(done, [name |-> IntoBytes(name.v),
                                   at |-> e.v[1].inode,
                                   inode |-> item.v])))))

ReadDir(inode, image) == ReadDirFrom(inode, 0, image, <<>>)

\* The loop of binary_search on u64 min and max.  `mid - 1` with mid = 0
\* overflows: a build with overflow checks panics there; a build without
\* them continues with max = 2^64 - 1, reads dirent 2^63 - 1 (min is 0 when
\* mid is 0), whose offset wraps to 2^64 - 16 and is beyond any size the
\* model holds, so that read_dirent answers Bounds.
\* reads is the sequence of the indexes handed to read_dirent so far; the
\* loop returns [r |-> the Result<Option<Inode>>, reads |-> that sequence].
RECURSIVE BinarySearchLoop(_, _, _, _, _, _, _)
BinarySearchLoop(image, inode, name, min, max, checked, reads) ==
    IF ~(min <= max) THEN [r |-> Ok(None), reads |-> reads]
    ELSE
    LET mid == ((max - min) \div 2) + min
        probed == Append(reads, mid)
    IN
    Let(InodeReadDirent(inode, mid, image), LAMBDA val :
    IF ~val.ok THEN [r |-> val, reads |-> probed]
    ELSE
    Let(DirentName(val.v, image), LAMBDA nm :
    IF ~nm.ok THEN [r |-> nm, reads |-> probed]
    ELSE
    Let(Cmp(name, IntoBytes(nm.v)), LAMBDA ord :
    IF ord = "eq"
    THEN Let(DirentInode(val.v, image),
             LAMBDA i : [r |-> IF i.ok THEN Ok(Some(i.v)) ELSE i, reads |-> probed])
    ELSE IF ord = "lt"
    THEN IF mid = 0
         THEN IF checked THEN [r |-> Err("Panic"), reads |-> probed]
              ELSE [r |-> Err("Bounds"), reads |-> Append(probed, IsizeLimit - 1)]
         ELSE BinarySearchLoop(image, inode, name, min, mid - 1, checked, probed)
    ELSE BinarySearchLoop(image, inode, name, mid + 1, max, checked, probed))))

\* binary_search(img, inode, name) with the indexes it read.
BinarySearchTraced(image, inode, name, checked) ==
    BinarySearchLoop(image, inode, name, 0, DirLen(inode), checked, <<>>)

\* binary_search(img, inode, name)
BinarySearch(image, inode, name, checked) ==
    BinarySearchTraced(image, inode, name, checked).r

\* path.split(|c| c == b'/'): the segments between the slashes, empty ones
\* included.
RECURSIVE SplitFrom(_, _, _)
SplitFrom(path, i, cur) ==
    IF i > Len(path) THEN <<cur>>
    ELSE IF path[i] = 47 THEN <<cur>> \o SplitFrom(path, i + 1, <<>>)
    ELSE SplitFrom(path, i + 1, Append(cur, path[i]))

Split(path) == SplitFrom(path, 1, <<>>)

Dot == <<46>>
DotDot == <<46, 46>>

\* resolve_path and its loop over the segments.  Both return
\* [r |-> the Result<Option<Inode>>, links |-> the symlinks expanded so far],
\* links counting the calls of get_link.
RECURSIVE ResolvePath(_, _, _, _, _, _)
RECURSIVE ResolveLoop(_, _, _, _, _, _, _)

\* The loop of resolve_path that hands out a symlink named by the last
\* segment as it is.
ResolveLoopLastLink(image, cur, elems, i, count, links, checked) ==
    IF i > Len(elems) THEN [r |-> Ok(Some(cur)), links |-> links]
    ELSE
    LET t == InodeTypeTryFrom(cur.inode_type)
        elem == elems[i]
    IN
    IF ~t.ok THEN [r |-> t, links |-> links]
    ELSE IF t.v # "Directory" THEN [r |-> Err("InvalidOperation"), links |-> links]
    ELSE IF Len(elem) = 0 \/ elem = Dot
    THEN ResolveLoop(image, cur, elems, i + 1, count, links, checked)
    ELSE IF elem = DotDot
    THEN Let(ParentInode(cur, image), LAMBDA par :
             IF ~par.ok THEN [r |-> par, links |-> links]
             ELSE ResolveLoop(image, par.v, elems, i + 1, count, links, checked))
    ELSE
    Let(BinarySearch(image, cur, elem, checked), LAMBDA found :
    IF ~found.ok THEN [r |-> found, links |-> links]
    ELSE IF found.v = None THEN [r |-> Ok(None), links |-> links]
    ELSE
    LET new == found.v[1]
        nt == InodeTypeTryFrom(new.inode_type)
    IN
    IF ~nt.ok THEN [r |-> nt, links |-> links]
    ELSE IF nt.v = "Symlink" /\ i < Len(elems)
    THEN Let(GetLink(new, image), LAMBDA link_path :
         IF ~link_path.ok THEN [r |-> link_path, links |-> links + 1]
         ELSE
         Let(ResolvePath(image, cur, link_path.v, count + 1, links + 1, checked),
             LAMBDA sub :
                 IF ~sub.r.ok \/ sub.r.v = None THEN sub
                 ELSE ResolveLoop(image, sub.r.v[1], elems, i + 1, count,
                                  sub.links, checked)))
    ELSE ResolveLoop(image, new, elems, i + 1, count, links, checked))

\* The loop of resolve_path over the segments, from segment i on.
ResolveLoop(image, cur, elems, i, count, links, checked) ==
    IF i > Len(elems) THEN [r |-> Ok(Some(cur)), links |-> links]
    ELSE
    LET t == InodeTypeTryFrom(cur.inode_type)
        elem == elems[i]
    IN
    IF ~t.ok THEN [r |-> t, links |-> links]
    ELSE IF t.v # "Directory" THEN [r |-> Err("InvalidOperation"), links |-> links]
    ELSE IF Len(elem) = 0 \/ elem = Dot
    THEN ResolveLoop(image, cur, elems, i + 1, count, links, checked)
    ELSE IF elem = DotDot
    THEN Let(ParentInode(cur, image), LAMBDA par :
             IF ~par.ok THEN [r |-> par, links |-> links]
             ELSE ResolveLoop(image, par.v, elems, i + 1, count, links, checked))
    ELSE
    Let(BinarySearch(image, cur, elem, checked), LAMBDA found :
    IF ~found.ok THEN [r |-> found, links |-> links]
    ELSE IF found.v = None THEN [r |-> Ok(None), links |-> links]
    ELSE
    LET new == found.v[1]
        nt == InodeTypeTryFrom(new.inode_type)
    IN
    IF ~nt.ok THEN [r |-> nt, links |-> links]
    ELSE IF nt.v = "Symlink"
    THEN Let(GetLink(new, image), LAMBDA link_path :
         IF ~link_path.ok THEN [r |-> link_path, links |-> links + 1]
         ELSE
         Let(ResolvePath(image, cur, link_path.v, count + 1, links + 1, checked),
             LAMBDA sub :
                 IF ~sub.r.ok \/ sub.r.v = None THEN sub
                 ELSE ResolveLoop(image, sub.r.v[1], elems, i + 1, count,
                                  sub.links, checked)))
    ELSE ResolveLoop(image, new, elems, i + 1, count, links, checked))

\* resolve_path that gave up one expansion later.
ResolvePathLate(image, root, path, count, links, checked) ==
    IF count > LINK_LOOP_MAX + 1 THEN [r |-> Err("Bounds"), links |-> links]
    ELSE IF Len(path) = 0 THEN [r |-> Err("Panic"), links |-> links]
    ELSE IF path[1] = 47
    THEN Let(RootInode(image), LAMBDA rt :
             IF ~rt.ok THEN [r |-> rt, links |-> links]
             ELSE ResolveLoop(image, rt.v, Split(path), 1, count, links, checked))
    ELSE ResolveLoop(image, root, Split(path), 1, count, links, checked)

\* resolve_path(img, root, path, count)
ResolvePath(image, root, path, count, links, checked) ==
    IF count > LINK_LOOP_MAX THEN [r |-> Err("Bounds"), links |-> links]
    ELSE IF Len(path) = 0 THEN [r |-> Err("Panic"), links |-> links]   \* path[0]
    ELSE IF path[1] = 47
    THEN Let(RootInode(image), LAMBDA rt :
             IF ~rt.ok THEN [r |-> rt, links |-> links]
             ELSE ResolveLoop(image, rt.v, Split(path), 1, count, links, checked))
    ELSE ResolveLoop(image, root, Split(path), 1, count, links, checked)

\* new_fsitem: the typed handle of an inode.
NewFsItem(inode) ==
    LET t == InodeTypeTryFrom(inode.inode_type)
    IN  IF t.ok THEN Ok([kind |-> t.v, inode |-> inode]) ELSE t

\* resolve_dir: Directory::resolve from the directory root.
ResolveDir(image, root, path, checked) ==
    Let(ResolvePath(image, root, path, 0, 0, checked), LAMBDA x :
    IF ~x.r.ok THEN x
    ELSE IF x.r.v = None THEN x
    ELSE LET it == NewFsItem(x.r.v[1])
         IN  [r |-> IF it.ok THEN Ok(Some(it.v)) ELSE it, links |-> x.links])

\* FS::get_root
GetRoot(image) ==
    Let(RootInode(image), LAMBDA inode :
    IF ~inode.ok THEN inode
    ELSE LET t == InodeTypeTryFrom(inode.v.inode_type)
         IN  IF ~t.ok THEN t
             ELSE IF t.v # "Directory" THEN Err("Format")
             ELSE inode)

----------------------------------------------------------------------------
(* extract (lib.rs): the host tree an image unpacks to *)

RECURSIVE Extract(_, _)
RECURSIVE ExtractEntries(_, _, _, _)

\* The loop of extract over dir.iter(): Ok(the entries created so far).
ExtractEntries(dir, pos, image, done) ==
    Let(DirGet(dir, pos, image), LAMBDA e :
    IF ~e.ok THEN e
    ELSE IF e.v = None THEN Ok(done)
    ELSE
    Let(DirentName(e.v[1], image), LAMBDA name :
    Let(IF name.ok THEN DirentInode(e.v[1], image) ELSE name, LAMBDA inode :
    Let(IF inode.ok THEN NewFsItem(inode.v) ELSE inode, LAMBDA item :
    IF ~item.ok THEN item
    ELSE
    Let(IF item.v.kind = "File"
        THEN IF item.v.inode.size >= IsizeLimit
             THEN Err("Panic")      \* vec![0; size]: capacity overflow
             ELSE Let(InodeReadAt(item.v.inode, item.v.inode.size, 0, image),
                      LAMBDA b : IF b.ok THEN Ok(FileNode(b.v)) ELSE b)
        ELSE IF item.v.kind = "Directory"
        THEN Extract(item.v.inode, image)
        ELSE Let(GetLink(item.v.inode, image),
                 LAMBDA l : IF l.ok THEN Ok(LinkNode(l.v)) ELSE l), LAMBDA node :
    IF ~node.ok THEN node
    ELSE ExtractEntries(dir, pos + 1, image,
                        Append(done, Entry(IntoBytes(name.v), node.v))))))))

\* extract(dir, target): Ok(the directory created at target).
Extract(dir, image) ==
    Let(ExtractEntries(dir, 0, image, <<>>),
        LAMBDA es : IF es.ok THEN Ok(DirNode(es.v)) ELSE es)

\* extract_image / extract_image_file after the open.
ExtractImage(image) ==
    Let(GetRoot(image),
        LAMBDA root : IF root.ok THEN Extract(root.v, image) ELSE root)

----------------------------------------------------------------------------
(* The source trees of the model *)

MaxData == 3

NameA == <<97>>             \* "a"
NameAB == <<97, 98>>        \* "ab"
NameB == <<98>>             \* "b"
Slash == <<47>>

Ramp(n) == [i \in 1..n |-> i]

\* A target one byte longer than the reader accepts: "/.../a".
LongTarget == [i \in 1..LINK_TARGET_MAX |-> 47] \o NameA

\* What each name of the root may be; entries are kept in name order here,
\* the order read_dir reports them in is chosen when the writer runs.
NodesA ==
    {FileNode(<<>>), FileNode(Ramp(MaxData)), LinkNode(NameB), LinkNode(NameA),
     DirNode(<<>>), LinkNode(LongTarget)}

NodesAB ==
    {DirNode(<<Entry(NameA, FileNode(Ramp(MaxData)))>>),
     DirNode(<<Entry(NameA, DirNode(<<>>)),
               Entry(NameB, LinkNode(DotDot \o Slash \o NameB))>>),
     LinkNode(Slash \o NameA)}

NodesB ==
    {FileNode(Ramp(MaxData)), LinkNode(NameA), LinkNode(NameAB \o Slash \o NameA)}

Opt(name, nodes) == {<<>>} \cup {<<Entry(name, x)>> : x \in nodes}

SourceTrees ==
    {DirNode(a \o ab \o b) :
        a \in Opt(NameA, NodesA), ab \in Opt(NameAB, NodesAB), b \in Opt(NameB, NodesB)}

\* fs::read_dir yields the entries of a directory in no particular order:
\* as listed, reversed, or rotated by one, in every directory of the tree.
RECURSIVE Reverse(_)
Reverse(s) == IF s = <<>> THEN <<>> ELSE Append(Reverse(Tail(s)), Head(s))

Reorder(s, order) ==
    IF order = "rev" THEN Reverse(s)
    ELSE IF order = "rot" /\ s # <<>> THEN Append(Tail(s), Head(s))
    ELSE s

RECURSIVE ReadDirOrder(_, _)
ReadDirOrder(node, order) ==
    IF node.ty # "dir" THEN node
    ELSE DirNode(Reorder([i \in 1..Len(node.entries) |->
                            Entry(node.entries[i].name,
                                  ReadDirOrder(node.entries[i].node, order))],
                         order))

Orders == {"asc", "rev", "rot"}

Paths ==
    {NameA, NameB, NameAB \o Slash \o NameA, Slash \o NameAB \o Slash \o NameB,
     NameAB \o Slash \o DotDot \o Slash \o NameA}

SearchNames == {<<65>>, NameA, <<97, 97>>, NameAB, NameB, <<99>>}

----------------------------------------------------------------------------
(* The caller: write images of the tree, open the last one, walk it *)

NoImage == [file |-> RawFile(<<>>), header |-> HeaderOf(Zeros(HeaderSize))]

NoDir == InodeOf(Zeros(InodeSize))

NoOp == [name |-> "none"]

NoRes == Err("none")

NoWriter == [f |-> NewStream(<<>>), nonce_prefix |-> <<>>, key |-> <<>>, pos |-> 0]

Init ==
    /\ overflow_checks = FALSE
    /\ tree \in SourceTrees
    /\ enc = EncNone
    /\ store = <<>>
    /\ ref = <<>>
    /\ pc = "start"
    /\ img = NoImage
    /\ op = NoOp
    /\ cwd = NoDir
    /\ at = 0
    /\ res = NoRes
    /\ cw = NoWriter
    /\ plain = <<>>

\* write_image(tree, Cursor::new(vec![]), Some(TEST_KEY), e): the caller
\* writes the image in the clear and may write it again encrypted.
DoWriteImage(e, order) ==
    /\ \/ pc = "start" /\ e = EncNone
       \/ pc = "written" /\ enc = EncNone /\ e = EncChaCha20
    /\ \E x \in {WriteImage(ReadDirOrder(tree, order), NewStream(<<>>), Some(TEST_KEY), e)} :
           /\ store' = x.f.data
           /\ res' = x.r
           /\ pc' = IF x.r.ok THEN "written" ELSE "failed"
    /\ ref' = store
    /\ enc' = e
    /\ op' = [name |-> "write_image"]
    /\ UNCHANGED <<overflow_checks, tree, img, cwd, at, cw, plain>>

\* FS::open(store, Some(TEST_KEY), Some(nonce))
DoOpen ==
    /\ pc = "written"
    /\ \E x \in {OpenFile(store, Some(TEST_KEY), Some(<<0>>))} :
           /\ img' = IF x.ok THEN x.v ELSE NoImage
           /\ res' = IF x.ok THEN Ok(<<>>) ELSE x
           /\ pc' = IF x.ok THEN "open" ELSE "failed"
    /\ op' = [name |-> "open"]
    /\ UNCHANGED <<overflow_checks, tree, enc, store, ref, cwd, at, cw, plain>>

\* Image::read_file of everything behind the header.
DoReadFile ==
    /\ pc = "open"
    /\ op' = [name |-> "read_file", off |-> HeaderSize]
    /\ res' = ReadFile(img, Len(store) - HeaderSize, HeaderSize)
    /\ pc' = "done"
    /\ UNCHANGED <<overflow_checks, tree, enc, store, ref, img, cwd, at, cw, plain>>

\* FS::get_root
DoGetRoot ==
    /\ pc = "open"
    /\ \E x \in {GetRoot(img)} :
           /\ cwd' = IF x.ok THEN x.v ELSE NoDir
           /\ res' = IF x.ok THEN Ok(<<>>) ELSE x
           /\ pc' = IF x.ok THEN "done" ELSE "failed"
    /\ at' = img.header.root_inode
    /\ op' = [name |-> "get_root"]
    /\ UNCHANGED <<overflow_checks, tree, enc, store, ref, img, cw, plain>>

\* cwd.get(i) and DirEntry::item: the caller moves to a subdirectory.
DoEnter(i) ==
    /\ pc = "ready"
    /\ \E d \in {DirGet(cwd, i, img)} :
           /\ d.ok
           /\ d.v # None
           /\ \E x \in {DirentInode(d.v[1], img)} :
                  /\ x.ok
                  /\ x.v.inode_type = TypeDirectory
                  /\ cwd' = x.v
           /\ at' = d.v[1].inode
    /\ op' = [name |-> "enter", i |-> i]
    /\ res' = Ok(<<>>)
    /\ pc' = "done"
    /\ UNCHANGED <<overflow_checks, tree, enc, store, ref, img, cw, plain>>

\* cwd.iter() collected.
DoReadDir ==
    /\ pc = "ready"
    /\ op' = [name |-> "iter"]
    /\ res' = ReadDir(cwd, img)
    /\ pc' = "done"
    /\ UNCHANGED <<overflow_checks, tree, enc, store, ref, img, cwd, at, cw, plain>>

\* extract_image: the whole image unpacked.
DoExtract ==
    /\ pc = "ready"
    /\ at = img.header.root_inode
    /\ op' = [name |-> "extract"]
    /\ res' = ExtractImage(img)
    /\ pc' = "done"
    /\ UNCHANGED <<overflow_checks, tree, enc, store, ref, img, cwd, at, cw, plain>>

\* Directory::resolve(path) from the directory held.
DoResolve(path, checked) ==
    /\ pc = "ready"
    /\ op' = [name |-> "resolve", path |-> path, checked |-> checked]
    /\ res' = ResolveDir(img, cwd, path, checked)
    /\ pc' = "done"
    /\ UNCHANGED <<overflow_checks, tree, enc, store, ref, img, cwd, at, cw, plain>>

\* binary_search(img, cwd, name); ls is what cwd.iter() yields.
DoSearch(name, checked) ==
    /\ pc = "ready"
    /\ op' = [name |-> "binary_search", arg |-> name, checked |-> checked,
              ls |-> ReadDir(cwd, img)]
    /\ res' = BinarySearch(img, cwd, name, checked)
    /\ pc' = "done"
    /\ UNCHANGED <<overflow_checks, tree, enc, store, ref, img, cwd, at, cw, plain>>

\* Symlink::get_link on the i-th entry of the directory held.
DoGetLink(i) ==
    /\ pc = "ready"
    /\ \E x \in {EntryInode(cwd, i, img)} :
           /\ x.ok
           /\ x.v.inode_type = TypeSymlink
           /\ op' = [name |-> "get_link", inode |-> x.v]
           /\ res' = GetLinkTraced(x.v, img)
    /\ pc' = "done"
    /\ UNCHANGED <<overflow_checks, tree, enc, store, ref, img, cwd, at, cw, plain>>

\* The caller has looked at the result and goes on from the directory held.
Continue ==
    /\ pc = "done"
    /\ op.name \in {"get_root", "enter"}
    /\ pc' = "ready"
    /\ op' = NoOp
    /\ res' = NoRes
    /\ UNCHANGED <<overflow_checks, tree, enc, store, ref, img, cwd, at, cw, plain>>

MaxIndex == 2

Next ==
    \/ \E e \in {EncNone, EncChaCha20}, order \in Orders : DoWriteImage(e, order)
    \/ DoOpen
    \/ DoReadFile
    \/ DoGetRoot
    \/ \E i \in 0..MaxIndex : DoEnter(i)
    \/ DoReadDir
    \/ DoExtract
    \/ \E path \in Paths, checked \in BOOLEAN : DoResolve(path, checked)
    \/ \E name \in SearchNames, checked \in BOOLEAN : DoSearch(name, checked)
    \/ \E i \in 0..MaxIndex : DoGetLink(i)
    \/ Continue

Spec == Init /\ [][Next]_vars

----------------------------------------------------------------------------
(* The cipher alone, as the tests of crypto.rs drive it: a wrapper over a   *)
(* zero-filled Cursor, absolute seeks and writes, positioned reads.  pc is  *)
(* the number of write calls made; a read ends the scenario.                *)

MaxWrites == 2

\* The Cursor holds a rekey boundary and room behind it.
CursorLen == CHACHA20_REKEY_PERIOD + 8

Unwritten == 0 - 1

WriteBufs == {<<11, 12>>, <<211, 212, 213, 214, 215, 216>>}

SeekTargets ==
    {0, CHACHA20_REKEY_PERIOD - 3, CHACHA20_REKEY_PERIOD - 1, CHACHA20_REKEY_PERIOD}

\* The most bytes one call of the inner store accepts or returns.
Caps == {3, Unlimited}

ReadOffsets == {0, CHACHA20_REKEY_PERIOD - 3}

ReadLens == {1, 6}

CipherInit ==
    /\ overflow_checks = FALSE
    /\ tree = DirNode(<<>>)
    /\ enc = EncChaCha20
    /\ store = <<>>
    /\ ref = <<>>
    /\ pc = 0
    /\ img = NoImage
    /\ op = NoOp
    /\ cwd = NoDir
    /\ at = 0
    /\ res = NoRes
    /\ cw = EncryptChaCha20New(NewStream(Zeros(CursorLen)), Some(TEST_KEY)).v
    /\ plain = [i \in 1..CursorLen |-> Unwritten]

\* crypto.seek(SeekFrom::Start(p))
CipherSeek(p) ==
    /\ op.name \notin {"seek", "read_at"}
    /\ pc < MaxWrites
    /\ cw' = CryptSeek(cw, p)
    /\ op' = [name |-> "seek", to |-> p]
    /\ res' = Ok(p)
    /\ UNCHANGED <<overflow_checks, tree, enc, store, ref, pc, img, cwd, at, plain>>

\* crypto.write(buf), every call of the inner stream accepting at most cap
\* bytes; the bytes the inner stream took are the plaintext of their offsets.
CipherWrite(buf, cap) ==
    /\ op.name # "read_at"
    /\ pc < MaxWrites
    /\ \E x \in {CryptWrite([cw EXCEPT !.f.cap = cap], buf)} :
           /\ cw' = x.c
           /\ res' = x.r
           /\ plain' = [i \in 1..Len(plain) |->
                           IF i > cw.f.pos /\ i <= x.c.f.pos THEN buf[i - cw.f.pos]
                           ELSE plain[i]]
    /\ op' = [name |-> "write", at |-> cw.f.pos, buf |-> buf, cap |-> cap]
    /\ pc' = pc + 1
    /\ UNCHANGED <<overflow_checks, tree, enc, store, ref, img, cwd, at>>

\* crypto.read_at(buf, off) with a buffer of len bytes, the inner store
\* returning at most cap bytes.
CipherReadAt(off, len, cap) ==
    /\ op.name # "read_at"
    /\ op' = [name |-> "read_at", off |-> off, len |-> len, cap |-> cap]
    /\ res' = CryptReadAt(cw, cw.f.data, Min(len, cap), off)
    /\ UNCHANGED <<overflow_checks, tree, enc, store, ref, pc, img, cwd, at, cw, plain>>

CipherNext ==
    \/ \E p \in SeekTargets : CipherSeek(p)
    \/ \E buf \in WriteBufs, cap \in Caps : CipherWrite(buf, cap)
    \/ \E off \in ReadOffsets, len \in ReadLens, cap \in Caps : CipherReadAt(off, len, cap)

SpecCipher == CipherInit /\ [][CipherNext]_vars

----------------------------------------------------------------------------
(* open_file on stores that hold a header, sound or damaged, or less *)

HeaderWith(magic, major, minor, comp, enc_type) ==
    magic \o U64ToLE(HeaderSize) \o <<major, minor, comp, enc_type>> \o Zeros(12)

\* "SQUASHFL" with one byte flipped.
BadMagic == <<83, 81, 85, 65, 83, 72, 70, 77>>

StoreLens == {0, 8, HeaderSize - 1, HeaderSize, HeaderSize + InodeSize}

Headers ==
    {HeaderWith(m, major, minor, comp, e) :
        m \in {MAGIC, BadMagic}, major \in {0, 1}, minor \in {0, 1},
        comp \in {0, 1}, e \in {0, 1, 2, 42}}

OpenStores ==
    {SubSeq(h \o InodeBytes(HeaderSize, 0, 0, TypeDirectory), 1, n) :
        h \in Headers, n \in StoreLens}

Keys == {None, Some(TEST_KEY), Some(<<1, 2, 3>>)}

Nonces == {None, Some(<<0>>)}

OpenInit ==
    /\ overflow_checks = FALSE
    /\ tree = DirNode(<<>>)
    /\ enc = EncNone
    /\ store \in OpenStores
    /\ ref = <<>>
    /\ pc = "closed"
    /\ img = NoImage
    /\ op = NoOp
    /\ cwd = NoDir
    /\ at = 0
    /\ res = NoRes
    /\ cw = NoWriter
    /\ plain = <<>>

\* disk::open_file(store, key, nonce)
DoOpenFile(key, nonce) ==
    /\ pc = "closed"
    /\ \E x \in {OpenFile(store, key, nonce)} :
           /\ img' = IF x.ok THEN x.v ELSE NoImage
           /\ res' = IF x.ok THEN Ok(<<>>) ELSE x
           /\ pc' = IF x.ok THEN "open" ELSE "failed"
    /\ op' = [name |-> "open_file", key |-> key, nonce |-> nonce]
    /\ UNCHANGED <<overflow_checks, tree, enc, store, ref, cwd, at, cw, plain>>

\* img.root_inode(), as test_get_root does after the open.
DoRootInode ==
    /\ pc = "open"
    /\ op' = [name |-> "root_inode", key |-> op.key]
    /\ res' = RootInode(img)
    /\ pc' = "done"
    /\ UNCHANGED <<overflow_checks, tree, enc, store, ref, img, cwd, at, cw, plain>>

OpenNext ==
    \/ \E key \in Keys, nonce \in Nonces : DoOpenFile(key, nonce)
    \/ DoRootInode

SpecOpen == OpenInit /\ [][OpenNext]_vars

----------------------------------------------------------------------------
(* Properties of the written image and of the read side *)

\* The root of the source tree has an entry name -> node.
RootHas(name, node) ==
    \E i \in 1..Len(tree.entries) : tree.entries[i] = Entry(name, node)

\* The caller stands in the root directory of the image.
InRoot == at = img.header.root_inode

\* C1: extracting the image written from a tree of files, directories and
\* symlinks gives back the tree: same nesting, names, file bytes and symlink
\* targets, whatever the length of a target.
C1_RoundTrip == op.name = "extract" => res = Ok(tree)

\* C2: in every directory of a written image the names of the dirent table,
\* in table order, are strictly ascending in byte order.
C2_DirentsAscending ==
    op.name = "iter" =>
        /\ res.ok
        /\ \A i \in 1..(Len(res.v) - 1) : Cmp(res.v[i].name, res.v[i + 1].name) = "lt"

C2_Witness == op.name = "iter" /\ res.ok /\ Len(res.v) = 3

\* C3: in a written image the root inode's parent_inode is the root inode's
\* own offset (the header's root_inode), the parent_inode of every inode a
\* directory lists is the offset of that directory's inode, and none is 0.
C3_ParentInodes ==
    /\ op.name = "get_root" =>
           /\ res.ok
           /\ cwd.parent_inode = img.header.root_inode
           /\ cwd.parent_inode # 0
    /\ op.name = "iter" =>
           /\ res.ok
           /\ \A i \in 1..Len(res.v) :
                  /\ res.v[i].inode.parent_inode = at
                  /\ res.v[i].inode.parent_inode # 0

C3_Witness == op.name = "iter" /\ res.ok /\ ~InRoot /\ Len(res.v) = 2

\* C4: binary_search on a sorted directory returns the inode of the entry
\* with the searched name when there is one, and Ok(None) (no error, no
\* panic) when there is none.
C4_BinarySearch ==
    op.name = "binary_search" =>
        /\ op.ls.ok
        /\ LET hit == {i \in 1..Len(op.ls.v) : op.ls.v[i].name = op.arg}
           IN  IF hit = {} THEN res = Ok(None)
               ELSE \E i \in hit : res = Ok(Some(op.ls.v[i].inode))

\* The path resolved from the root enters a cycle of symlinks: a -> a,
\* a -> b -> a, or ab -> /a, a -> b, b -> ab/a.
C5_Cycle ==
    /\ op.name = "resolve"
    /\ InRoot
    /\ \/ op.path = NameA /\ RootHas(NameA, LinkNode(NameA))
       \/ /\ op.path \in {NameA, NameB}
          /\ RootHas(NameA, LinkNode(NameB))
          /\ RootHas(NameB, LinkNode(NameA))
       \/ /\ op.path = NameAB \o Slash \o NameA
          /\ RootHas(NameAB, LinkNode(Slash \o NameA))
          /\ RootHas(NameA, LinkNode(NameB))
          /\ RootHas(NameB, LinkNode(NameAB \o Slash \o NameA))

C6_Payload(inode) ==
    Slice(IF enc = EncNone THEN store ELSE ref, inode.offset, inode.size)

\* C6: get_link on an inode whose size exceeds LINK_TARGET_MAX is Bounds and
\* reads nothing, and so is the expansion of such a link inside resolve;
\* otherwise get_link returns exactly size bytes, the payload.
C6_GetLink ==
    /\ op.name = "get_link" =>
           IF op.inode.size > LINK_TARGET_MAX
           THEN res = [r |-> Err("Bounds"), reads |-> 0]
           ELSE /\ res.r = Ok(C6_Payload(op.inode))
                /\ Len(res.r.v) = op.inode.size
    /\ (/\ op.name = "resolve"
        /\ InRoot
        /\ op.path = NameA
        /\ RootHas(NameA, LinkNode(LongTarget))) => res.r = Err("Bounds")

C6_Witness ==
    /\ op.name = "get_link"
    /\ enc = EncChaCha20
    /\ op.inode.size > LINK_TARGET_MAX
    /\ res.r = Err("Bounds")

\* C9: the ChaCha20 image and the unencrypted image of one tree have the same
\* length, the same cleartext header but for the encryption_type byte, and
\* behind the header the cipher reader returns the bytes of the unencrypted
\* image.
C9_SameImage ==
    (op.name = "read_file" /\ enc = EncChaCha20) =>
        /\ Len(store) = Len(ref)
        /\ SubSeq(store, 1, 19) = SubSeq(ref, 1, 19)
        /\ SubSeq(store, 21, HeaderSize) = SubSeq(ref, 21, HeaderSize)
        /\ store[20] = EncChaCha20
        /\ ref[20] = EncNone
        /\ SubSeq(store, 1, 8) = MAGIC
        /\ res = Ok(SubSeq(ref, HeaderSize + 1, Len(ref)))

C9_Witness ==
    /\ op.name = "read_file"
    /\ enc = EncChaCha20
    /\ res.ok
    /\ Len(res.v) > 4 * CHACHA20_REKEY_PERIOD
    /\ SubSeq(store, HeaderSize + 1, Len(store)) # res.v

----------------------------------------------------------------------------
(* Properties of the cipher and of open_file *)

\* C7: a positioned read through the cipher returns, at every offset that
\* was written, the plaintext byte last written there, in whatever order and
\* pieces the regions were written.
C7_LastWriteWins ==
    op.name = "read_at" =>
        /\ res.ok
        /\ \A i \in 1..Len(res.v) :
               plain[op.off + i] # Unwritten => res.v[i] = plain[op.off + i]

C7_Witness ==
    /\ op.name = "read_at"
    /\ pc = MaxWrites
    /\ res.ok
    /\ Len(res.v) = 6
    /\ op.off < CHACHA20_REKEY_PERIOD
    /\ \A i \in 1..Len(res.v) : plain[op.off + i] # Unwritten
    /\ \E i, j \in 1..Len(res.v) : i < j /\ res.v[i] > 200 /\ res.v[j] < 200

\* The keystream byte of absolute offset o: window o div REKEY_PERIOD under
\* the nonce prefix, position o mod REKEY_PERIOD in it.
C8_KeystreamAt(o) ==
    KeystreamByte(
        KeystreamSeed(cw.key, cw.nonce_prefix \o U64ToBE(o \div CHACHA20_REKEY_PERIOD)),
        o % CHACHA20_REKEY_PERIOD)

\* C8: the byte stored for a written offset o is its plaintext xor the
\* keystream byte of (key, nonce prefix, o div REKEY_PERIOD, o mod
\* REKEY_PERIOD), and a read returns the stored byte xor that same keystream
\* byte, wherever the call starts, whatever its length, the chunking and the
\* short reads and writes of the inner store, on both sides of a boundary.
C8_Keystream ==
    /\ \A o \in 0..(Len(plain) - 1) :
           plain[o + 1] # Unwritten =>
               cw.f.data[o + 1] = Xor(plain[o + 1], C8_KeystreamAt(o))
    /\ op.name = "read_at" =>
           /\ res.ok
           /\ \A i \in 1..Len(res.v) :
                  res.v[i] = Xor(cw.f.data[op.off + i], C8_KeystreamAt(op.off + i - 1))

C8_Witness ==
    /\ op.name = "write"
    /\ res.ok
    /\ op.cap < CHACHA20_BUFFER_SIZE
    /\ op.at < CHACHA20_REKEY_PERIOD
    /\ op.at + res.v > CHACHA20_REKEY_PERIOD + 1
    /\ res.v > CHACHA20_BUFFER_SIZE

\* The header of the store is damaged: magic, version or encryption type.
C10_Damaged ==
    \/ SubSeq(store, 1, 8) # MAGIC
    \/ store[17] # 0
    \/ store[18] # 0
    \/ store[20] \notin {0, 1}

\* C10: open_file on a store shorter than a header is an unexpected-EOF I/O
\* error; on a header with a wrong magic, a version other than 0.0 or an
\* unknown encryption type it is a Format error whatever the key; a sound
\* header with encryption and compression 0 opens.
C10_OpenFile ==
    op.name = "open_file" =>
        IF Len(store) < HeaderSize THEN res = Err("IO_UnexpectedEof")
        ELSE /\ C10_Damaged => res = Err("Format") /\ pc = "failed" /\ img = NoImage
             /\ (~C10_Damaged /\ store[19] = 0 /\ store[20] = 0) =>
                    /\ res.ok
                    /\ pc = "open"
                    /\ img.header = HeaderOf(SubSeq(store, 1, HeaderSize))

C10_Witness ==
    /\ op.name = "open_file"
    /\ Len(store) >= HeaderSize
    /\ SubSeq(store, 1, 8) = MAGIC
    /\ store[20] = 42
    /\ op.key = Some(TEST_KEY)
    /\ res = Err("Format")

----------------------------------------------------------------------------
(* The key of the cipher layer: EncryptChaCha20::new as test_crypto_init     *)
(* calls it, and the two callers that hand it the caller's key, open_file   *)
(* on a written image and write_image.                                      *)

KeyBytes(n) == [i \in 1..n |-> (7 * i) % 256]

KeyLens == {0, 3, KEY_SIZE, KEY_SIZE + 3, KEY_SIZE + 5, KEY_SIZE + IV_SIZE}

KeyOptions == {None, Some(TEST_KEY)} \cup {Some(KeyBytes(n)) : n \in KeyLens}

KeyTrees ==
    {DirNode(<<>>), DirNode(<<Entry(NameA, FileNode(Ramp(MaxData)))>>),
     DirNode(<<Entry(NameA, LinkNode(NameB)), Entry(NameB, DirNode(<<>>))>>)}

\* The caller holds an image of the tree, written in the clear or encrypted
\* under TEST_KEY.
KeyInit ==
    /\ overflow_checks = FALSE
    /\ tree \in KeyTrees
    /\ enc \in {EncNone, EncChaCha20}
    /\ store = WriteImage(tree, NewStream(<<>>), Some(TEST_KEY), enc).f.data
    /\ ref = <<>>
    /\ pc = "written"
    /\ img = NoImage
    /\ op = NoOp
    /\ cwd = NoDir
    /\ at = 0
    /\ res = NoRes
    /\ cw = NoWriter
    /\ plain = <<>>

\* EncryptChaCha20::new((), key)
KeyNew(key) ==
    /\ pc = "written"
    /\ \E x \in {EncryptChaCha20New(NewStream(<<>>), key)} :
           /\ cw' = IF x.ok THEN x.v ELSE NoWriter
           /\ res' = IF x.ok THEN Ok(<<>>) ELSE x
    /\ op' = [name |-> "new", key |-> key]
    /\ pc' = "done"
    /\ UNCHANGED <<overflow_checks, tree, enc, store, ref, img, cwd, at, plain>>

\* disk::open_file(store, key, nonce) on the image held.
KeyOpen(key, nonce) ==
    /\ pc = "written"
    /\ \E x \in {OpenFile(store, key, nonce)} :
           /\ img' = IF x.ok THEN x.v ELSE NoImage
           /\ res' = IF x.ok THEN Ok(<<>>) ELSE x
    /\ op' = [name |-> "open_file", key |-> key, nonce |-> nonce]
    /\ pc' = "done"
    /\ UNCHANGED <<overflow_checks, tree, enc, store, ref, cwd, at, cw, plain>>

\* write_image(tree, Cursor::new(vec![]), key, e)
KeyWrite(key, e) ==
    /\ pc = "written"
    /\ \E x \in {WriteImage(tree, NewStream(<<>>), key, e)} :
           /\ ref' = x.f.data
           /\ res' = x.r
    /\ op' = [name |-> "write_image", key |-> key, enc_type |-> e]
    /\ pc' = "done"
    /\ UNCHANGED <<overflow_checks, tree, enc, store, img, cwd, at, cw, plain>>

KeyNext ==
    \/ \E key \in KeyOptions : KeyNew(key)
    \/ \E key \in KeyOptions, nonce \in Nonces : KeyOpen(key, nonce)
    \/ \E key \in KeyOptions, e \in {EncNone, EncChaCha20} : KeyWrite(key, e)

SpecKey == KeyInit /\ [][KeyNext]_vars

\* The key is there and is 36 bytes long.
SoundKey(key) == key # None /\ Len(key[1]) = 36

\* C11: EncryptChaCha20::new succeeds exactly when a key is supplied and is
\* 36 bytes long, and fails with Crypto otherwise; open_file on an image whose
\* header says ChaCha20, and write_image with ChaCha20, fail with Crypto when
\* the key is missing or has another length.
C11_KeyLength ==
    /\ op.name = "new" =>
           /\ res.ok <=> SoundKey(op.key)
           /\ ~res.ok => res = Err("Crypto")
    /\ (op.name = "open_file" /\ enc = EncChaCha20 /\ ~SoundKey(op.key)) =>
           res = Err("Crypto")
    /\ (op.name = "write_image" /\ op.enc_type = EncChaCha20 /\ ~SoundKey(op.key)) =>
           res = Err("Crypto")

C11_Witness ==
    /\ op.name = "open_file"
    /\ enc = EncChaCha20
    /\ op.key # None
    /\ Len(op.key[1]) = 35
    /\ res = Err("Crypto")

----------------------------------------------------------------------------
(* Crafted buffers, as the fuzz harness hands them to extract_image        *)
(* (bin/squashfuzz.rs): a header, a root inode, one dirent, the inode it   *)
(* names, the name "a" and two payload bytes, with the fields of the two   *)
(* inodes free.  The caller opens the buffer without key and walks it.     *)

CraftedRootAt == HeaderSize

CraftedTableAt == CraftedRootAt + InodeSize

CraftedChildAt == CraftedTableAt + DirentSize

CraftedNameAt == CraftedChildAt + InodeSize

CraftedPayloadAt == CraftedNameAt + 2

CraftedImage(root, child) ==
    HeaderWith(MAGIC, VERSION_MAJOR, VERSION_MINOR, 0, EncNone)
    \o InodeBytes(CraftedRootAt, root.offset, root.size, root.inode_type)
    \o DirentBytes([name |-> CraftedNameAt, inode |-> CraftedChildAt])
    \o InodeBytes(CraftedRootAt, child.offset, child.size, child.inode_type)
    \o <<97, 0>> \o <<120, 121>>

\* The root inode: a directory or not, its table where it is or 16 bytes
\* before 2^64, of no, one or two dirents.
CraftedRoots ==
    [inode_type : {TypeDirectory, TypeFile},
     offset : {CraftedTableAt, U64Mod - DirentSize},
     size : {0, DirentSize, 2 * DirentSize}]

\* The inode the dirent names: any type byte, its payload where it is or at
\* the last u64, of a size that fits, that passes the buffer, or that passes
\* isize::MAX.
CraftedChildren ==
    [inode_type : {TypeDirectory, TypeFile, TypeSymlink, 3},
     offset : {CraftedPayloadAt, U64Mod - 1},
     size : {0, 2, U64Far, U64Mod - 1}]

FuzzInit ==
    /\ overflow_checks \in BOOLEAN
    /\ tree = DirNode(<<>>)
    /\ enc = EncNone
    /\ \E root \in CraftedRoots, child \in CraftedChildren :
           store = CraftedImage(root, child)
    /\ ref = <<>>
    /\ pc = "written"
    /\ img = NoImage
    /\ op = NoOp
    /\ cwd = NoDir
    /\ at = 0
    /\ res = NoRes
    /\ cw = NoWriter
    /\ plain = <<>>

\* FS::open(data, None, None), as extract_image opens the buffer.
FuzzOpen ==
    /\ pc = "written"
    /\ \E x \in {OpenFile(store, None, None)} :
           /\ img' = IF x.ok THEN x.v ELSE NoImage
           /\ res' = IF x.ok THEN Ok(<<>>) ELSE x
           /\ pc' = IF x.ok THEN "open" ELSE "failed"
    /\ op' = [name |-> "open"]
    /\ UNCHANGED <<overflow_checks, tree, enc, store, ref, cwd, at, cw, plain>>

\* Directory::len and Directory::get(pos) on the directory held.
FuzzGet(pos) ==
    /\ pc = "ready"
    /\ op' = [name |-> "get", pos |-> pos, len |-> DirLen(cwd)]
    /\ res' = DirGet(cwd, pos, img)
    /\ pc' = "done"
    /\ UNCHANGED <<overflow_checks, tree, enc, store, ref, img, cwd, at, cw, plain>>

\* DirEntry::file_name, DirEntry::item and, through the item,
\* DirEntry::file_type, on the pos-th entry of the directory held.
FuzzItem(pos) ==
    /\ pc = "ready"
    /\ \E d \in {DirGet(cwd, pos, img)} :
           /\ d.ok
           /\ d.v # None
           /\ op' = [name |-> "item", pos |-> pos,
                     file_name |-> DirentName(d.v[1], img)]
           /\ res' = Let(DirentInode(d.v[1], img),
                         LAMBDA i : IF i.ok THEN NewFsItem(i.v) ELSE i)
    /\ pc' = "done"
    /\ UNCHANGED <<overflow_checks, tree, enc, store, ref, img, cwd, at, cw, plain>>

\* File::read_at(buf, off) with a buffer of len bytes on the pos-th entry of
\* the directory held.
FuzzReadAt(pos, len, off) ==
    /\ pc = "ready"
    /\ \E x \in {EntryInode(cwd, pos, img)} :
           /\ x.ok
           /\ x.v.inode_type = TypeFile
           /\ op' = [name |-> "read_at", inode |-> x.v, len |-> len, off |-> off]
           /\ res' = InodeReadAt(x.v, len, off, img)
    /\ pc' = "done"
    /\ UNCHANGED <<overflow_checks, tree, enc, store, ref, img, cwd, at, cw, plain>>

FuzzLens == {0, 1, 3}

FuzzOffsets == {0, 1, 2, 3}

FuzzNext ==
    \/ FuzzOpen
    \/ DoGetRoot
    \/ Continue
    \/ \E pos \in 0..MaxIndex : FuzzGet(pos)
    \/ \E pos \in 0..MaxIndex : FuzzItem(pos)
    \/ \E pos \in 0..MaxIndex, len \in FuzzLens, off \in FuzzOffsets :
           FuzzReadAt(pos, len, off)
    \/ \E pos \in 0..MaxIndex : DoGetLink(pos)
    \/ DoReadDir
    \/ DoExtract

SpecFuzz == FuzzInit /\ [][FuzzNext]_vars

\* C12: no call of the traversal panics: every call on every buffer ends
\* with a value or with one of the typed errors.
Panicked(r) == r = Err("Panic")

C12_NoPanic ==
    /\ ~Panicked(res)
    /\ op.name = "get_link" => ~Panicked(res.r)

----------------------------------------------------------------------------
(* A caller walking a written image: the image of a source tree is on the  *)
(* store, the caller opens it, takes the root, moves into subdirectories   *)
(* and makes one call from the directory it holds.                         *)

WalkInit ==
    /\ overflow_checks \in BOOLEAN
    /\ tree \in SourceTrees
    /\ enc = EncNone
    /\ store = WriteImage(tree, NewStream(<<>>), Some(TEST_KEY), EncNone).f.data
    /\ ref = <<>>
    /\ pc = "written"
    /\ img = NoImage
    /\ op = NoOp
    /\ cwd = NoDir
    /\ at = 0
    /\ res = NoRes
    /\ cw = NoWriter
    /\ plain = <<>>

AbsolutePaths ==
    {Slash, Slash \o NameA, Slash \o NameB, Slash \o Slash \o NameAB,
     Slash \o NameAB \o Slash \o NameA,
     Slash \o NameAB \o Slash \o DotDot \o Slash \o NameB}

\* Directory::resolve(path) from the directory held, for a path that begins
\* with '/'; the caller also resolves it, and the path behind its first
\* byte, from the root.
DoResolveAbsolute(path) ==
    /\ pc = "ready"
    /\ \E root \in {GetRoot(img)} :
           /\ root.ok
           /\ op' = [name |-> "resolve_absolute", path |-> path,
                     from_root |-> ResolveDir(img, root.v, path, overflow_checks).r,
                     stripped |-> ResolveDir(img, root.v, Tail(path),
                                             overflow_checks).r]
    /\ res' = ResolveDir(img, cwd, path, overflow_checks)
    /\ pc' = "done"
    /\ UNCHANGED <<overflow_checks, tree, enc, store, ref, img, cwd, at, cw, plain>>

\* Directory::resolve of the name of the i-th entry of the directory held,
\* a symlink whose target the reader accepts; the caller also resolves the
\* target from that directory, and both with a segment "a" behind them.
DoResolveLink(i) ==
    /\ pc = "ready"
    /\ \E ls \in {ReadDir(cwd, img)} :
           /\ ls.ok
           /\ i + 1 <= Len(ls.v)
           /\ ls.v[i + 1].inode.inode_type = TypeSymlink
           /\ \E t \in {GetLink(ls.v[i + 1].inode, img)} :
                  /\ t.ok
                  /\ op' = [name |-> "resolve_link",
                            link |-> ls.v[i + 1].name,
                            target |-> t.v,
                            ls |-> {ls.v[k].name : k \in 1..Len(ls.v)},
                            to_target |->
                                ResolveDir(img, cwd, t.v, overflow_checks).r,
                            behind |->
                                ResolveDir(img, cwd,
                                           ls.v[i + 1].name \o Slash \o NameA,
                                           overflow_checks).r,
                            target_behind |->
                                ResolveDir(img, cwd, t.v \o Slash \o NameA,
                                           overflow_checks).r]
                  /\ res' = ResolveDir(img, cwd, ls.v[i + 1].name, overflow_checks)
    /\ pc' = "done"
    /\ UNCHANGED <<overflow_checks, tree, enc, store, ref, img, cwd, at, cw, plain>>

ReadAtLens == {0, 1, 2, MaxData + 2}

ReadAtOffsets == 0..(MaxData + 1)

\* File::read_at(buf, off) with a buffer of len bytes on the i-th entry of
\* the directory held, a file.  The result is that of Inode::read_at, the
\* bytes of buf[..sz] with it.
DoFileReadAt(i, len, off) ==
    /\ pc = "ready"
    /\ \E x \in {EntryInode(cwd, i, img)} :
           /\ x.ok
           /\ x.v.inode_type = TypeFile
           /\ op' = [name |-> "read_at", inode |-> x.v, len |-> len, off |-> off]
           /\ res' = InodeReadAt(x.v, len, off, img)
    /\ pc' = "done"
    /\ UNCHANGED <<overflow_checks, tree, enc, store, ref, img, cwd, at, cw, plain>>

\* Offsets a caller may hand in: in and around the payload, and the last two
\* values of u64.
ReadExactOffsets == ReadAtOffsets \cup {U64Mod - 2, U64Mod - 1}

\* Inode::read_exact_at(buf, off, img) with a buffer of len bytes on the
\* inode of the i-th entry of the directory held, a file.
DoInodeReadExactAt(i, len, off) ==
    /\ pc = "ready"
    /\ \E x \in {EntryInode(cwd, i, img)} :
           /\ x.ok
           /\ x.v.inode_type = TypeFile
           /\ op' = [name |-> "read_exact_at", inode |-> x.v, len |-> len,
                     off |-> off]
           /\ res' = InodeReadExactAt(x.v, len, off, img)
    /\ pc' = "done"
    /\ UNCHANGED <<overflow_checks, tree, enc, store, ref, img, cwd, at, cw, plain>>

\* binary_search(img, cwd, name) on the directory held, of n entries.
DoSearchTraced(name) ==
    /\ pc = "ready"
    /\ op' = [name |-> "binary_search reads", arg |-> name, n |-> DirLen(cwd)]
    /\ res' = BinarySearchTraced(img, cwd, name, overflow_checks)
    /\ pc' = "done"
    /\ UNCHANGED <<overflow_checks, tree, enc, store, ref, img, cwd, at, cw, plain>>

\* One name, or a name with a second segment behind it.
NamedPaths ==
    SearchNames \cup {NameA \o Slash \o NameA, NameB \o Slash \o NameA,
                      NameAB \o Slash \o <<99>>}

\* Directory::resolve(path) from the directory held; ls is what cwd.iter()
\* yields.
DoResolveNamed(path) ==
    /\ pc = "ready"
    /\ op' = [name |-> "resolve_named", path |-> path, ls |-> ReadDir(cwd, img)]
    /\ res' = ResolveDir(img, cwd, path, overflow_checks)
    /\ pc' = "done"
    /\ UNCHANGED <<overflow_checks, tree, enc, store, ref, img, cwd, at, cw, plain>>

\* Paths with trivial segments: the empty path, ".", "/", "//", "./",
\* "a/", "a/.", "./a", "a//", "/./a", "ab/./a".
TrivialPaths ==
    {<<>>, Dot, Slash, Slash \o Slash, Dot \o Slash, NameA \o Slash,
     NameA \o Slash \o Dot, Dot \o Slash \o NameA, NameA \o Slash \o Slash,
     Slash \o Dot \o Slash \o NameA, NameAB \o Slash \o Dot \o Slash \o NameA}

\* The segments of a path that are neither empty nor ".".
NonTrivial(segs) == SelectSeq(segs, LAMBDA e : Len(e) > 0 /\ e # Dot)

\* The segments joined by '/'.
RECURSIVE Join(_)
Join(segs) ==
    IF Len(segs) = 1 THEN segs[1]
    ELSE segs[1] \o Slash \o Join(Tail(segs))

\* Directory::resolve(path) from the directory held; the caller also
\* resolves the path made of its non-trivial segments, from the root when
\* the path begins with '/', and takes the directory itself when there are
\* none.
DoResolveTrivial(path) ==
    /\ pc = "ready"
    /\ \E root \in {GetRoot(img)} :
           /\ root.ok
           /\ LET segs == NonTrivial(Split(path))
                  start == IF Len(path) > 0 /\ path[1] = 47 THEN root.v ELSE cwd
                  item == NewFsItem(start)
              IN  op' = [name |-> "resolve_trivial", path |-> path,
                         reduced |->
                             IF segs = <<>> THEN Ok(Some(item.v))
                             ELSE ResolveDir(img, start, Join(segs),
                                             overflow_checks).r]
    /\ res' = ResolveDir(img, cwd, path, overflow_checks)
    /\ pc' = "done"
    /\ UNCHANGED <<overflow_checks, tree, enc, store, ref, img, cwd, at, cw, plain>>

WalkNext ==
    \/ DoOpen
    \/ DoGetRoot
    \/ \E i \in 0..MaxIndex : DoEnter(i)
    \/ Continue
    \/ \E path \in AbsolutePaths : DoResolveAbsolute(path)
    \/ \E i \in 0..MaxIndex : DoResolveLink(i)
    \/ \E i \in 0..MaxIndex, len \in ReadAtLens, off \in ReadAtOffsets :
           DoFileReadAt(i, len, off)
    \/ \E i \in 0..MaxIndex, len \in ReadAtLens, off \in ReadExactOffsets :
           DoInodeReadExactAt(i, len, off)
    \/ \E name \in SearchNames : DoSearchTraced(name)
    \/ \E path \in NamedPaths : DoResolveNamed(path)
    \/ \E path \in TrivialPaths : DoResolveTrivial(path)

SpecWalk == WalkInit /\ [][WalkNext]_vars

\* C13: a path that begins with '/' resolves to the same outcome from every
\* directory, and to the outcome of the path without its first byte resolved
\* from the root.
C13_AbsolutePath ==
    op.name = "resolve_absolute" =>
        /\ res.r = op.from_root
        /\ res.r = op.stripped

\* C14: resolving the name of a symlink gives what resolving its target from
\* the directory of the link gives, in the last position and with a segment
\* behind it; a target that names no entry of that directory gives Ok(None).
C14_LinkFollowed ==
    op.name = "resolve_link" =>
        /\ res.r = op.to_target
        /\ op.behind = op.target_behind
        /\ (op.target \in {NameA, NameAB, NameB} /\ op.target \notin op.ls)
               => res.r = Ok(None)

----------------------------------------------------------------------------
(* The three on-disk enums alone, as disk/tests.rs drives them: a byte is  *)
(* parsed, a variant is emitted, and the result is converted back.         *)

EnumKinds == {"EncryptionType", "CompressionType", "InodeType"}

Variants(kind) ==
    CASE kind = "EncryptionType" -> {"None", "ChaCha20"}
      [] kind = "CompressionType" -> {"None"}
      [] kind = "InodeType" -> {"Directory", "File", "Symlink"}

TryFromU8(kind, val) ==
    CASE kind = "EncryptionType" -> EncryptionTypeTryFrom(val)
      [] kind = "CompressionType" -> CompressionTypeTryFrom(val)
      [] kind = "InodeType" -> InodeTypeTryFrom(val)

IntoU8(kind, variant) ==
    CASE kind = "EncryptionType" -> EncryptionTypeInto(variant)
      [] kind = "CompressionType" -> CompressionTypeInto(variant)
      [] kind = "InodeType" -> InodeTypeInto(variant)

EnumInit ==
    /\ overflow_checks = FALSE
    /\ tree = DirNode(<<>>)
    /\ enc = EncNone
    /\ store = <<>>
    /\ ref = <<>>
    /\ pc = "start"
    /\ img = NoImage
    /\ op = NoOp
    /\ cwd = NoDir
    /\ at = 0
    /\ res = NoRes
    /\ cw = NoWriter
    /\ plain = <<>>

\* let t: Result<kind> = val.try_into();
EnumTryFrom(kind, val) ==
    /\ pc = "start"
    /\ op' = [name |-> "try_from", kind |-> kind, val |-> val]
    /\ res' = TryFromU8(kind, val)
    /\ pc' = "parsed"
    /\ UNCHANGED <<overflow_checks, tree, enc, store, ref, img, cwd, at, cw, plain>>

\* let v: u8 = variant.into();
EnumInto(kind, variant) ==
    /\ pc = "start"
    /\ op' = [name |-> "into", kind |-> kind, variant |-> variant]
    /\ res' = Ok(IntoU8(kind, variant))
    /\ pc' = "emitted"
    /\ UNCHANGED <<overflow_checks, tree, enc, store, ref, img, cwd, at, cw, plain>>

\* The parsed variant emitted again.
EnumIntoAgain ==
    /\ pc = "parsed"
    /\ res.ok
    /\ op' = [name |-> "into_of_try_from", kind |-> op.kind, val |-> op.val]
    /\ res' = Ok(IntoU8(op.kind, res.v))
    /\ pc' = "done"
    /\ UNCHANGED <<overflow_checks, tree, enc, store, ref, img, cwd, at, cw, plain>>

\* The emitted byte parsed again.
EnumTryFromAgain ==
    /\ pc = "emitted"
    /\ op' = [name |-> "try_from_of_into", kind |-> op.kind, variant |-> op.variant]
    /\ res' = TryFromU8(op.kind, res.v)
    /\ pc' = "done"
    /\ UNCHANGED <<overflow_checks, tree, enc, store, ref, img, cwd, at, cw, plain>>

EnumNext ==
    \/ \E kind \in EnumKinds, val \in 0..255 : EnumTryFrom(kind, val)
    \/ \E kind \in EnumKinds : \E variant \in Variants(kind) : EnumInto(kind, variant)
    \/ EnumIntoAgain
    \/ EnumTryFromAgain

SpecEnum == EnumInit /\ [][EnumNext]_vars

\* The bytes the format assigns to each enum.
Codes(kind) ==
    CASE kind = "EncryptionType" -> {0, 1}
      [] kind = "CompressionType" -> {0}
      [] kind = "InodeType" -> {0, 1, 2}

\* C15: each enum parses exactly its codes, answers Format for every other
\* byte, and parsing and emitting are inverse to each other.
C15_EnumRoundTrip ==
    /\ op.name = "try_from" =>
           IF op.val \in Codes(op.kind) THEN res.ok ELSE res = Err("Format")
    /\ op.name = "into" => res.v \in Codes(op.kind)
    /\ op.name = "into_of_try_from" => res = Ok(op.val)
    /\ op.name = "try_from_of_into" => res = Ok(op.variant)

C15_Witness ==
    /\ op.name = "into_of_try_from"
    /\ op.kind = "InodeType"
    /\ op.val = 2
    /\ res = Ok(2)

\* The bytes the store holds at the absolute offsets [from, from + n).
Stored(from, n) == SubSeq(store, from + 1, from + n)

C17_ReadExactAt ==
    op.name = "read_exact_at" =>
        IF op.off + op.len > op.inode.size
        THEN res = Err("IO_UnexpectedEof")
        ELSE res = Ok(Stored(op.inode.offset + op.off, op.len))

----------------------------------------------------------------------------
(* Several callers reading one open Image.  A read is two steps, the call  *)
(* and the return, and the steps of the callers interleave freely; each    *)
(* caller makes one read and then repeats it.  pc, op and res are kept per *)
(* caller here.                                                            *)

Callers == {1, 2}

\* The Image after one of its read methods ran with len and offset: the
\* store is behind &self, the header is not touched, the cipher is what
\* read_at leaves of it.
ImageAfterRead(image, len, offset) ==
    IF image.file.kind = "chacha"
    THEN [image EXCEPT !.file.c = CryptAfterReadAt(@, len, offset)]
    ELSE image

\* The four read methods of Image.
ImageRead(image, call) ==
    CASE call.fn = "read_inode" -> ReadInode(image, call.off)
      [] call.fn = "read_dirent" -> ImageReadDirent(image, call.off)
      [] call.fn = "read_str" -> ReadStr(image, call.off)
      [] call.fn = "read_file" -> ReadFile(image, call.len, call.off)

ReadLen(fn) ==
    CASE fn = "read_inode" -> InodeSize
      [] fn = "read_dirent" -> DirentSize
      [] fn = "read_str" -> StrChunk
      [] fn = "read_file" -> MaxData

ReadFns == {"read_inode", "read_dirent", "read_str", "read_file"}

\* FS::open(store, Some(TEST_KEY), Some(nonce)) of the image on the store.
Opened == OpenFile(store, Some(TEST_KEY), Some(<<0>>)).v

ReadersInit ==
    /\ overflow_checks = FALSE
    /\ tree \in KeyTrees
    /\ enc \in {EncNone, EncChaCha20}
    /\ store = WriteImage(tree, NewStream(<<>>), Some(TEST_KEY), enc).f.data
    /\ ref = <<>>
    /\ pc = [t \in Callers |-> "idle"]
    /\ img = Opened
    /\ op = [t \in Callers |-> NoOp]
    /\ cwd = NoDir
    /\ at = 0
    /\ res = [t \in Callers |-> NoRes]
    /\ cw = NoWriter
    /\ plain = <<>>

\* Where the callers read: the first bytes behind the header, two bytes
\* further, and the root inode.
ReadPlaces == {"first", "third", "root"}

PlaceOffset(image, place) ==
    CASE place = "first" -> HeaderSize
      [] place = "third" -> HeaderSize + 2
      [] place = "root" -> image.header.root_inode

\* Caller t enters a read method.
ReadCall(t, fn, place) ==
    /\ pc[t] = "idle"
    /\ op' = [op EXCEPT ![t] = [name |-> "read", fn |-> fn,
                                off |-> PlaceOffset(img, place),
                                len |-> ReadLen(fn)]]
    /\ pc' = [pc EXCEPT ![t] = "reading"]
    /\ UNCHANGED <<overflow_checks, tree, enc, store, ref, img, cwd, at, res, cw, plain>>

\* The read of caller t returns.
ReadReturn(t) ==
    /\ pc[t] \in {"reading", "rereading"}
    /\ res' = [res EXCEPT ![t] = ImageRead(img, op[t])]
    /\ img' = ImageAfterRead(img, op[t].len, op[t].off)
    /\ pc' = [pc EXCEPT ![t] = IF pc[t] = "reading" THEN "done" ELSE "done again"]
    /\ UNCHANGED <<overflow_checks, tree, enc, store, ref, op, cwd, at, cw, plain>>

\* Caller t makes the same read once more, and keeps what it got before.
ReadAgain(t) ==
    /\ pc[t] = "done"
    /\ op' = [op EXCEPT ![t] = [name |-> "read again", fn |-> op[t].fn,
                                off |-> op[t].off, len |-> op[t].len,
                                before |-> res[t]]]
    /\ pc' = [pc EXCEPT ![t] = "rereading"]
    /\ UNCHANGED <<overflow_checks, tree, enc, store, ref, img, cwd, at, res, cw, plain>>

ReadersNext ==
    \/ \E t \in Callers, fn \in ReadFns, place \in ReadPlaces :
           ReadCall(t, fn, place)
    \/ \E t \in Callers : ReadReturn(t)
    \/ \E t \in Callers : ReadAgain(t)

SpecReaders == ReadersInit /\ [][ReadersNext]_vars

C19_IndexesInRange ==
    op.name = "binary_search reads" =>
        /\ \A k \in 1..Len(res.reads) : res.reads[k] < op.n
        /\ res.r # Err("Panic")

----------------------------------------------------------------------------
(* read_exact_at alone, over a store whose read_at calls return short      *)
(* counts and errors as a script says.                                     *)

MaxScript == 3

Steps ==
    {Step(0, "none"), Step(1, "none"), Step(2, "none"),
     Step(0, "IO_Interrupted"), Step(0, "IO_Other")}

Scripts == UNION {[1..n -> Steps] : n \in 0..MaxScript}

ExactLens == {0, 1, MaxData + 1, MaxData + 3}

ExactOffsets == {0, 1, MaxData + 2}

RECURSIVE WithoutInterrupts(_)
WithoutInterrupts(script) ==
    IF script = <<>> THEN <<>>
    ELSE IF Head(script).err = "IO_Interrupted" THEN WithoutInterrupts(Tail(script))
    ELSE <<Head(script)>> \o WithoutInterrupts(Tail(script))

ExactInit ==
    /\ overflow_checks = FALSE
    /\ tree = DirNode(<<>>)
    /\ enc = EncNone
    /\ store = Ramp(MaxData + 2)
    /\ ref = <<>>
    /\ pc = "open"
    /\ \E script \in Scripts :
           img = [file |-> ScriptFile(store, script), header |-> NoImage.header]
    /\ op = NoOp
    /\ cwd = NoDir
    /\ at = 0
    /\ res = NoRes
    /\ cw = NoWriter
    /\ plain = <<>>

\* Image::read_file(buf, off) with a buffer of len bytes: read_exact_at of
\* the store.  The caller makes the same call on a store that answers alike
\* but is never interrupted.
DoReadExact(len, off) ==
    /\ pc = "open"
    /\ op' = [name |-> "read_file", len |-> len, off |-> off,
              script |-> img.file.script,
              uninterrupted |->
                  ReadFile([img EXCEPT !.file.script = WithoutInterrupts(@)],
                           len, off)]
    /\ res' = ReadFile(img, len, off)
    /\ pc' = "done"
    /\ UNCHANGED <<overflow_checks, tree, enc, store, ref, img, cwd, at, cw, plain>>

ExactNext == \E len \in ExactLens, off \in ExactOffsets : DoReadExact(len, off)

SpecExact == ExactInit /\ [][ExactNext]_vars

StepsOf(script) == {script[k] : k \in 1..Len(script)}

\* C20: read_exact_at returns Ok only with the len bytes of the store from
\* offset on; UnexpectedEof only after a read of 0 bytes; never Interrupted,
\* and what it returns is what it returns when no call is interrupted;
\* any other error only as the store raised it; and Ok when the store holds
\* the bytes and raises nothing but interrupts.
C20_ReadExact ==
    op.name = "read_file" =>
        /\ res.ok => /\ op.off + op.len <= Len(store)
                     /\ res.v = Stored(op.off, op.len)
        /\ res = op.uninterrupted
        /\ ~res.ok => \/ /\ res = Err("IO_UnexpectedEof")
                         /\ \/ op.off + op.len > Len(store)
                            \/ Step(0, "none") \in StepsOf(op.script)
                      \/ /\ res = Err("IO_Other")
                         /\ Step(0, "IO_Other") \in StepsOf(op.script)
        /\ (/\ op.off + op.len <= Len(store)
            /\ StepsOf(op.script) \subseteq
                   {Step(1, "none"), Step(2, "none"), Step(0, "IO_Interrupted")})
               => res.ok

C20_Witness ==
    /\ op.name = "read_file"
    /\ op.script = <<Step(1, "none"), Step(0, "IO_Interrupted"), Step(2, "none")>>
    /\ op.len = MaxData + 1
    /\ op.off = 1
    /\ res = Ok(Stored(1, MaxData + 1))

----------------------------------------------------------------------------
(* read_str alone, over stores with and without a NUL, whose read_at calls *)
(* return short counts as a script says.                                   *)

\* A name that fills more than one chunk of read_str, and its NUL.
LongName == [i \in 1..(StrChunk + 2) |-> IF i = StrChunk + 2 THEN 0 ELSE 97]

StrStores ==
    {<<97, 98, 0, 99, 0>>, <<97, 98, 99>>, <<0, 97>>, <<>>, LongName,
     SubSeq(LongName, 1, StrChunk + 1)}

ShortCounts == {Step(1, "none"), Step(2, "none"), Step(StrChunk, "none")}

StrScripts == UNION {[1..n -> ShortCounts] : n \in 0..MaxScript}

StrOffsets == {0, 1, 2, 3, 4, StrChunk}

StrInit ==
    /\ overflow_checks = FALSE
    /\ tree = DirNode(<<>>)
    /\ enc = EncNone
    /\ store \in StrStores
    /\ ref = <<>>
    /\ pc = "open"
    /\ \E script \in StrScripts :
           img = [file |-> ScriptFile(store, script), header |-> NoImage.header]
    /\ op = NoOp
    /\ cwd = NoDir
    /\ at = 0
    /\ res = NoRes
    /\ cw = NoWriter
    /\ plain = <<>>

\* Image::read_str(off)
DoReadStr(off) ==
    /\ pc = "open"
    /\ op' = [name |-> "read_str", off |-> off]
    /\ res' = ReadStr(img, off)
    /\ pc' = "done"
    /\ UNCHANGED <<overflow_checks, tree, enc, store, ref, img, cwd, at, cw, plain>>

StrNext == \E off \in StrOffsets : DoReadStr(off)

SpecStr == StrInit /\ [][StrNext]_vars

\* The offsets at or after off at which the store holds a NUL.
NulsFrom(off) == {o \in off..(Len(store) - 1) : store[o + 1] = 0}

\* C21: read_str returns the bytes from off up to and including the first
\* NUL at or after off, and UnexpectedEof when the store holds none there.
C21_ReadStr ==
    op.name = "read_str" =>
        IF NulsFrom(op.off) = {} THEN res = Err("IO_UnexpectedEof")
        ELSE LET nul == CHOOSE o \in NulsFrom(op.off) :
                            \A p \in NulsFrom(op.off) : o <= p
             IN  res = Ok(Stored(op.off, nul - op.off + 1))

C21_Witness ==
    /\ op.name = "read_str"
    /\ store = LongName
    /\ op.off = 1
    /\ img.file.script = <<Step(2, "none"), Step(1, "none")>>
    /\ res = Ok(Stored(1, StrChunk + 1))

\* The entries of a listing that bear the name.
Named(ls, name) == {k \in 1..Len(ls) : ls[k].name = name}

\* C22: a name that the directory does not list resolves to Ok(None); a
\* segment behind the name of a file is InvalidOperation.
C22_NotFoundOrInvalid ==
    (op.name = "resolve_named" /\ op.ls.ok) =>
        LET segs == Split(op.path)
        IN  /\ (Len(segs) = 1 /\ Named(op.ls.v, segs[1]) = {})
                   => res.r = Ok(None)
            /\ (/\ Len(segs) = 2
                /\ \E k \in Named(op.ls.v, segs[1]) :
                       op.ls.v[k].inode.inode_type = TypeFile)
                   => res.r = Err("InvalidOperation")

\* C23: empty and "." segments have no effect: a path resolves to what its
\* other segments resolve to, and to the starting directory (the root for a
\* path that begins with '/') when it has no other segment.
C23_TrivialSegments ==
    op.name = "resolve_trivial" => res.r = op.reduced

----------------------------------------------------------------------------
(* ReadDir, one next() at a time.  The iterator is the directory held in   *)
(* cwd and its pos, kept in `at`.  The directories are the roots of        *)
(* crafted buffers: a table of no, one or two dirents (or one and a half), *)
(* where it is, far beyond the buffer, or 16 bytes before 2^64.            *)

IterRoots ==
    [inode_type : {TypeDirectory},
     offset : {CraftedTableAt, U64Far, U64Mod - DirentSize},
     size : {0, DirentSize, DirentSize + 8, 2 * DirentSize}]

IterChildren ==
    [inode_type : {TypeDirectory, TypeFile},
     offset : {CraftedPayloadAt},
     size : {0, 2}]

IterInit ==
    /\ overflow_checks \in BOOLEAN
    /\ tree = DirNode(<<>>)
    /\ enc = EncNone
    /\ \E root \in IterRoots, child \in IterChildren :
           store = CraftedImage(root, child)
    /\ ref = <<>>
    /\ pc = "written"
    /\ img = NoImage
    /\ op = NoOp
    /\ cwd = NoDir
    /\ at = 0
    /\ res = NoRes
    /\ cw = NoWriter
    /\ plain = <<>>

\* Directory::iter: a ReadDir at pos 0.
DoIter ==
    /\ pc = "ready"
    /\ pc' = "iter"
    /\ at' = 0
    /\ op' = [name |-> "iter"]
    /\ res' = NoRes
    /\ UNCHANGED <<overflow_checks, tree, enc, store, ref, img, cwd, cw, plain>>

\* The calls of next() the model follows on one iterator.
MaxNext == 4

\* ReadDir::next: Ok(the Option<Result<Dirent>> returned), pos one further.
\* A panic inside Directory::get leaves before `self.pos += 1`.
DoNext ==
    /\ pc = "iter"
    /\ at < MaxNext
    /\ \E r \in {DirGet(cwd, at, img)} :
           IF r = Err("Panic")
           THEN /\ res' = r
                /\ at' = at
                /\ pc' = "failed"
           ELSE /\ res' = IF ~r.ok THEN Ok(Some(r))
                          ELSE IF r.v = None THEN Ok(None)
                          ELSE Ok(Some(Ok(r.v[1])))
                /\ at' = at + 1
                /\ pc' = "iter"
    /\ op' = [name |-> "next", pos |-> at]
    /\ UNCHANGED <<overflow_checks, tree, enc, store, ref, img, cwd, cw, plain>>

IterNext ==
    \/ FuzzOpen
    \/ DoGetRoot
    \/ Continue
    \/ DoIter
    \/ DoNext

SpecIter == IterInit /\ [][IterNext]_vars

\* C24: the call of next() at position i < n = size / 16 yields the dirent
\* stored at payload offset + 16 * i or the error of reading there, the call
\* at a position i >= n yields None, and every call moves the position one
\* further, so that the items come in index order and end after n.
C24_ReadDirNext ==
    op.name = "next" =>
        /\ res.ok
        /\ at = op.pos + 1
        /\ op.pos >= DirLen(cwd) => res.v = None
        /\ op.pos < DirLen(cwd) =>
               /\ res.v # None
               /\ res.v[1].ok =>
                      /\ cwd.offset + DirentSize * (op.pos + 1) <= Len(store)
                      /\ res.v[1].v =
                             DirentOf(Stored(cwd.offset + DirentSize * op.pos,
                                             DirentSize))

----------------------------------------------------------------------------
(* write_image on a traced output.  The caller hands over a stream that    *)
(* already holds bytes or none, and whose write calls accept what the      *)
(* script says: everything, or everything but for one or two calls that    *)
(* accept 0, 1 or 3 bytes.                                                 *)

WriteTrees ==
    {DirNode(a \o ab \o b) :
        a \in Opt(NameA, {FileNode(<<>>), DirNode(<<>>)}),
        ab \in Opt(NameAB, {DirNode(<<Entry(NameA, FileNode(Ramp(MaxData)))>>),
                            DirNode(<<Entry(NameA, DirNode(<<>>)),
                                      Entry(NameB, LinkNode(DotDot \o Slash \o NameB))>>)}),
        b \in Opt(NameB, {LinkNode(NameA)})}

\* The write calls a script lets pass before the one it restricts.
MaxFault == 5

ShortCaps == {<<0>>, <<1>>, <<3>>, <<3, 0>>}

WriteScripts ==
    {<<>>} \cup {[i \in 1..k |-> U64Far] \o c : k \in 0..MaxFault, c \in ShortCaps}

\* What the output holds before the call: nothing, or bytes that are no image.
OldOutputs == {<<>>, [i \in 1..(HeaderSize + 4) |-> 255]}

WriteInit ==
    /\ overflow_checks = FALSE
    /\ tree \in WriteTrees
    /\ enc = EncNone
    /\ store \in OldOutputs
    /\ ref = <<>>
    /\ pc = "start"
    /\ img = NoImage
    /\ op = NoOp
    /\ cwd = NoDir
    /\ at = 0
    /\ res = NoRes
    /\ cw = NoWriter
    /\ plain = <<>>

\* write_image(tree, out, Some(TEST_KEY), e) on the output that holds store.
DoWriteTraced(e, script) ==
    /\ pc = "start"
    /\ \E x \in {WriteImage(tree, TracedStream(store, script), Some(TEST_KEY), e)} :
           /\ store' = x.f.data
           /\ res' = x.r
           /\ pc' = IF x.r.ok THEN "written" ELSE "failed"
           /\ op' = [name |-> "write_image_traced", old |-> store,
                     script |-> script, out |-> x]
    /\ ref' = store
    /\ enc' = e
    /\ UNCHANGED <<overflow_checks, tree, img, cwd, at, cw, plain>>

WriteNext ==
    \E e \in {EncNone, EncChaCha20}, script \in WriteScripts : DoWriteTraced(e, script)

SpecWrite == WriteInit /\ [][WriteNext]_vars

\* The write calls of the log that begin inside the header.
InHeader(log) == {i \in 1..Len(log) : log[i].at < HeaderSize}

\* C25: the bytes [0, 32) are the last thing write_image writes: no write
\* call lands anywhere once one has begun in the header, the header's calls
\* stay inside it and take each of its bytes at most once (once, when the
\* call succeeds), the call before them ends the patch of the root inode's
\* parent field, after the root's write_directory returned; and a call that
\* fails before any header byte went out leaves the first 32 bytes as they
\* were, so that an output without the magic is still without it.
C25_HeaderLast ==
    op.name = "write_image_traced" =>
        LET log == op.out.f.log
            head == InHeader(log)
        IN  /\ \A i \in head :
                   /\ log[i].at + log[i].n <= HeaderSize
                   /\ \A j \in (i + 1)..Len(log) : j \in head
            /\ \A b \in 0..(HeaderSize - 1) :
                   LET takes == {i \in head : log[i].at <= b /\ b < log[i].at + log[i].n}
                   IN  /\ Cardinality(takes) <= 1
                       /\ res.ok => Cardinality(takes) = 1
            /\ head # {} =>
                   LET h == CHOOSE i \in head : \A j \in head : i <= j
                       dirs == op.out.f.dirs
                   IN  /\ dirs # <<>>
                       /\ dirs[Len(dirs)].pos = op.out.root_inode
                       /\ h > 1
                       /\ log[h - 1].n > 0
                       /\ log[h - 1].at >= op.out.root_inode
                       /\ log[h - 1].at + log[h - 1].n = op.out.root_inode + 8
            /\ (~res.ok /\ \A i \in head : log[i].n = 0) =>
                   /\ \A i \in 1..Min(HeaderSize, Len(op.old)) : store[i] = op.old[i]
                   /\ Slice(store, 0, 8) # MAGIC

C25_Witness ==
    /\ op.name = "write_image_traced"
    /\ res.ok
    /\ enc = EncChaCha20
    /\ op.old # <<>>
    /\ Len(op.out.f.dirs) >= 2
    /\ \E i \in 1..Len(op.out.f.log) : op.out.f.log[i].n = 3

\* C26: in every write_directory that returned, the bytes of the output
\* before and behind the fix-up loop differ at most in the parent fields of
\* the directory's own entries, where an unencrypted output then holds the
\* directory's inode position, and the stream is left at the end of the
\* directory's inode record.
C26_BackPatchFrame ==
    op.name = "write_image_traced" =>
        \A k \in 1..Len(op.out.f.dirs) :
            LET d == op.out.f.dirs[k]
            IN  /\ Len(d.after) = Len(d.before)
                /\ \A p \in 1..Len(d.before) :
                       d.after[p] # d.before[p] =>
                           \E i \in 1..Len(d.entries) :
                               d.entries[i].inode < p /\ p <= d.entries[i].inode + 8
                /\ enc = EncNone =>
                       \A i \in 1..Len(d.entries) :
                           SubSeq(d.after, d.entries[i].inode + 1, d.entries[i].inode + 8)
                               = U64ToLE(d.pos)
                /\ d.end = d.pos + InodeSize

C26_Witness ==
    /\ op.name = "write_image_traced"
    /\ res.ok
    /\ \E k \in 1..Len(op.out.f.dirs) :
           /\ Len(op.out.f.dirs[k].entries) >= 2
           /\ op.out.f.dirs[k].after # op.out.f.dirs[k].before
           /\ k < Len(op.out.f.dirs)

\* C27: when write_image succeeds, read_str at the name offset of every
\* entry written returns the entry's name and its 0x00, and the entry's
\* first record begins directly behind that byte, whatever the write calls
\* of the output accepted.
C27_NameTerminated ==
    (op.name = "write_image_traced" /\ res.ok) =>
        Let(OpenFile(store, Some(TEST_KEY), Some(<<0>>)), LAMBDA image :
            /\ image.ok
            /\ \A k \in 1..Len(op.out.f.names) :
                   LET e == op.out.f.names[k]
                   IN  /\ ReadStr(image.v, e.name_pos) = Ok(e.name \o <<0>>)
                       /\ e.start = e.name_pos + Len(e.name) + 1)

\* C28: every write call the cipher hands to the inner stream during
\* write_image lands at the cipher's logical position, from the first one
\* on, which lands at offset 32 behind a wrapper constructed at position 0;
\* calls that follow each other in the stream follow each other in the
\* logical position, and the wrapper is dropped with both positions equal.
C28_LogicalPosition ==
    (op.name = "write_image_traced" /\ enc = EncChaCha20) =>
        LET log == op.out.f.log
        IN  /\ \A i \in 1..Len(log) : log[i].logical = log[i].at
            /\ \A i \in 1..(Len(log) - 1) :
                   log[i + 1].at = log[i].at + log[i].n =>
                       log[i + 1].logical = log[i].logical + log[i].n
            /\ "dropped" \in DOMAIN op.out =>
                   op.out.dropped.pos = op.out.dropped.f.pos

C28_Witness ==
    /\ op.name = "write_image_traced"
    /\ enc = EncChaCha20
    /\ res.ok
    /\ Len(op.out.f.names) >= 2
    /\ op.out.f.log[1].at = HeaderSize
    /\ op.out.f.log[1].n > 0
    /\ \E i \in 1..Len(op.out.f.log) : op.out.f.log[i].n = 1

\* C29: on the read path of a crafted buffer the absolute offsets stay below
\* 2^64: where File::read_at reaches `offset + off` (off <= size) and where
\* Directory::get reaches `pos * 16 + offset` (pos < len, on a directory),
\* the sum is a u64, and neither call traps.
C29_OffsetsInRange ==
    /\ (op.name = "read_at" /\ op.off <= op.inode.size) =>
           /\ op.inode.offset + op.off < U64Mod
           /\ ~Panicked(res)
    /\ (op.name = "get" /\ op.pos < op.len
            /\ InodeTypeTryFrom(cwd.inode_type) = Ok("Directory")) =>
           /\ DirentSize * op.pos + cwd.offset < U64Mod
           /\ ~Panicked(res)

\* C30: on a written image no resolve of the walk returns a Symlink: a
\* successful result is not-found, a File or a Directory, also where the
\* last segment names a symlink.
C30_NoSymlinkItem ==
    (op.name \in {"resolve_absolute", "resolve_link", "resolve_named", "resolve_trivial"}
         /\ res.r.ok /\ res.r.v # None) =>
        res.r.v[1].kind \in {"File", "Directory"}

C30_Witness ==
    /\ op.name = "resolve_link"
    /\ res.r.ok
    /\ res.r.v # None
    /\ res.links >= 2
    /\ res.r.v[1].kind = "File"

====
